---- MODULE Spec2Model ----
(***************************************************************************)
(* A model of science_digest.py: the text distillation and classification  *)
(* pipeline (access gate, topic classifier, distiller, enrichment).        *)
(*                                                                         *)
(* Text is a sequence of characters; a character is a one-character        *)
(* string.  Chars turns a TLA+ string into such a sequence.  All length    *)
(* thresholds of the program (50, 60, 300, ...) are kept as they are and   *)
(* apply to those sequences.                                               *)
(***************************************************************************)
EXTENDS Integers, Sequences, FiniteSets, TLC

VARIABLES
    cl_title,       \* classify_domain: argument title
    cl_summary,     \* classify_domain: argument summary
    cl_result,      \* classify_domain: returned topic, None, or Pending before the call
    cl_pc,          \* "call" before classify_domain ran, "done" after
    gse_title,          \* generate_simple_explanation: argument title
    gse_summary,        \* generate_simple_explanation: argument summary
    gse_full_content,   \* generate_simple_explanation: argument full_content
    gse_all_text,       \* local all_text
    gse_sentences,      \* local sentences (segmented, then filtered, then cleaned)
    gse_scored,         \* local scored: (score, sent) pairs
    gse_idx,            \* position of the selection loop in scored
    gse_bullet_points,  \* local bullet_points
    gse_used_words,     \* local used_words
    gse_html,           \* the <li> items of the returned markup
    gse_pc,             \* the stage generate_simple_explanation is at
    ud_domain,          \* fetch_domain_articles: argument domain
    ud_urls,            \* fetch_domain_articles: argument urls
    ud_url_idx,         \* position of the loop over urls
    ud_elements,        \* article_elements[:15] of the listing being read
    ud_elem_idx,        \* position of the loop over article_elements
    ud_articles,        \* articles (fetch_domain_articles, then update_digest)
    ud_seen_titles,     \* seen_titles
    ud_per_source,      \* articles_per_source
    ud_input,           \* enrich_with_explanations: argument articles
    ud_enrich_idx,      \* position of the loop over articles
    ud_enriched,        \* enriched
    ud_pages,           \* per article processed: <<response>> if a page was requested, else << >>
    ud_kept,            \* update_digest: domains_articles[domain]
    ud_pc,              \* where the run of update_digest for one topic is
    fn_name,            \* a single call of a function: the function called
    fn_args,            \* its arguments
    fn_result,          \* the value it returned, Pending before the call
    fn_pc               \* "call" before the function ran, "done" after

classifyVars == <<cl_title, cl_summary, cl_result, cl_pc>>

gseArgs == <<gse_title, gse_summary, gse_full_content>>

distillVars ==
    <<gse_title, gse_summary, gse_full_content, gse_all_text, gse_sentences, gse_scored, gse_idx,
      gse_bullet_points, gse_used_words, gse_html, gse_pc>>

pipeVars ==
    <<ud_domain, ud_urls, ud_url_idx, ud_elements, ud_elem_idx, ud_articles,
      ud_seen_titles, ud_per_source, ud_input, ud_enrich_idx, ud_enriched,
      ud_pages, ud_kept, ud_pc>>

callVars == <<fn_name, fn_args, fn_result, fn_pc>>

vars == <<classifyVars, distillVars, pipeVars, callVars>>

(***************************************************************************)
(* Characters and text primitives (Python str operations)                  *)
(***************************************************************************)
Chars(s) == [i \in 1..Len(s) |-> SubSeq(s, i, i)]

Range(f) == {f[i] : i \in DOMAIN f}

UpperSeq == Chars("ABCDEFGHIJKLMNOPQRSTUVWXYZ")

LowerSeq == Chars("abcdefghijklmnopqrstuvwxyz")

DigitSeq == Chars("0123456789")

UpperSet == Range(UpperSeq)

LowerSet == Range(LowerSeq)

DigitSet == Range(DigitSeq)

LowerMap == [c \in UpperSet |-> LowerSeq[CHOOSE i \in DOMAIN UpperSeq : UpperSeq[i] = c]]

UpperMap == [c \in LowerSet |-> UpperSeq[CHOOSE i \in DOMAIN LowerSeq : LowerSeq[i] = c]]

\* str.lower(), character by character
LowerChar(c) == IF c \in UpperSet THEN LowerMap[c] ELSE c

Lower(t) == [i \in 1..Len(t) |-> LowerChar(t[i])]

\* Python's "p in t" for strings
Contains(t, p) ==
    \/ p = << >>
    \/ \E i \in 1..(Len(t) - Len(p) + 1) : t[i] = p[1] /\ SubSeq(t, i, i + Len(p) - 1) = p

Space == Chars(" ")

None == "None"

Pending == "Pending"

Min(S) == CHOOSE x \in S : \A y \in S : x <= y

Max(S) == CHOOSE x \in S : \A y \in S : y <= x

\* character classes of the regular expressions: \s, \d, [a-zA-Z], \w
\* A character outside ASCII is written by its code point, "U+2019", and so is
\* the grave accent, "U+0060"; Chars is used on the other ASCII characters only.  \s and str.strip() take U+00A0 as whitespace,
\* \w takes the letters U+00E2 and U+00C2 as word characters.
\* \s restricted to ASCII (as under re.ASCII)
WhitespaceAscii == {" ", "\t", "\n", "\r"}

WhitespaceSet == {" ", "\t", "\n", "\r", "U+00A0"}

AlphaSet == UpperSet \cup LowerSet

WordSet == AlphaSet \cup DigitSet \cup {"_", "U+00E2", "U+00C2"}

IsSpace(c) == c \in WhitespaceSet

IsWordChar(c) == c \in WordSet

\* the largest j >= i - 1 such that t[i..j] lies in the class S (a greedy S*)
RunEndIn(t, i, S) == Min({j \in i..Len(t) : t[j] \notin S} \cup {Len(t) + 1}) - 1

\* str.strip()
Strip(t) ==
    LET inner == {i \in 1..Len(t) : ~IsSpace(t[i])}
    IN  IF inner = {} THEN << >> ELSE SubSeq(t, Min(inner), Max(inner))

\* p matches t at position i (case-sensitive)
MatchAt(t, i, p) == i >= 1 /\ i + Len(p) - 1 <= Len(t) /\ SubSeq(t, i, i + Len(p) - 1) = p

\* p (given in lower case) matches t at position i under re.IGNORECASE
MatchAtCI(t, i, p) ==
    i >= 1 /\ i + Len(p) - 1 <= Len(t) /\ Lower(SubSeq(t, i, i + Len(p) - 1)) = p

\* \b at the gap before position i (1 <= i <= Len(t) + 1)
WordBoundary(t, i) ==
    LET before == i > 1 /\ IsWordChar(t[i - 1])
        after == i <= Len(t) /\ IsWordChar(t[i])
    IN  before # after

\* re.sub: the text from position pos on, every match replaced.  ends[i] is the
\* last position of the match the pattern finds when tried at i (less than i
\* when it does not match there), repl[i] the replacement of that match.
\* Matches are taken leftmost first and do not overlap.
RECURSIVE SubSpans(_, _, _, _)
SubSpans(t, ends, repl, pos) ==
    LET starts == {i \in pos..Len(t) : ends[i] >= i}
    IN  IF starts = {} THEN SubSeq(t, pos, Len(t))
        ELSE LET s == Min(starts)
             IN  SubSeq(t, pos, s - 1) \o repl[s] \o SubSpans(t, ends, repl, ends[s] + 1)

\* str.replace(p, r) and its case-insensitive form re.compile(re.escape(p),
\* re.IGNORECASE).sub(r, t), p given in lower case
ReplaceAll(t, p, r) ==
    SubSpans(t, [i \in 1..Len(t) |-> IF t[i] = p[1] /\ MatchAt(t, i, p)
                                      THEN i + Len(p) - 1 ELSE 0],
             [i \in 1..Len(t) |-> r], 1)

ReplaceAllCI(t, p, r) ==
    SubSpans(t, [i \in 1..Len(t) |-> IF LowerChar(t[i]) = p[1] /\ MatchAtCI(t, i, p)
                                      THEN i + Len(p) - 1 ELSE 0],
             [i \in 1..Len(t) |-> r], 1)

\* re.sub(r'\s+', ' ', t)
CollapseWhitespace(t) ==
    LET first == [i \in 1..Len(t) |->
                     IF ~IsSpace(t[i]) THEN t[i]
                     ELSE IF i = 1 \/ ~IsSpace(t[i - 1]) THEN " " ELSE "rest of run"]
    IN  SelectSeq(first, LAMBDA c : c # "rest of run")

\* str.split(): the maximal runs of non-whitespace characters, in order
SplitWords(t) ==
    LET word == [i \in 1..Len(t) |->
                    IF ~IsSpace(t[i]) /\ (i = 1 \/ IsSpace(t[i - 1]))
                    THEN SubSeq(t, i, Min({j \in i..Len(t) : IsSpace(t[j])} \cup {Len(t) + 1}) - 1)
                    ELSE << >>]
    IN  SelectSeq(word, LAMBDA w : w # << >>)

(***************************************************************************)
(* Static configuration tables                                             *)
(***************************************************************************)
PAYWALLED_DOMAINS ==
    << "nature.com", "science.org", "sciencemag.org", "nytimes.com",
       "washingtonpost.com", "wsj.com", "newscientist.com", "scientificamerican.com",
       "theatlantic.com", "wired.com" >>

\* the declared (dict insertion) order of DOMAIN_KEYWORDS
DomainOrder == << "Astronomy", "Wildlife", "Biology", "Climate" >>

DOMAIN_KEYWORDS ==
    [ Astronomy |->
      << "space", "planet", "star", "galaxy", "moon", "mars", "nasa", "asteroid",
         "comet", "telescope", "orbit", "solar", "cosmic", "universe", "black hole",
         "supernova", "nebula", "spacecraft", "rocket", "satellite", "exoplanet",
         "astronomy", "astronaut", "celestial", "meteor", "jupiter", "saturn", "venus",
         "mercury", "neptune", "uranus", "milky way", "hubble", "webb", "iss",
         "international space station", "launch", "mission", "lunar" >>,
      Wildlife |->
      << "animal", "wildlife", "species", "mammal", "bird", "fish", "reptile",
         "amphibian", "insect", "predator", "prey", "endangered", "extinction",
         "conservation", "habitat", "zoo", "safari", "migration", "behavior", "wolf",
         "bear", "lion", "tiger", "elephant", "whale", "dolphin", "shark", "eagle",
         "owl", "snake", "frog", "butterfly", "bee", "ant", "spider", "primate", "ape",
         "monkey", "gorilla", "chimpanzee", "orangutan", "ocean life", "marine life",
         "coral reef", "rainforest", "savanna", "arctic animal", "polar bear", "penguin",
         "seal", "otter", "deer", "fox", "rabbit", "squirrel", "bat", "crocodile",
         "turtle", "parrot" >>,
      Biology |->
      << "cell", "dna", "gene", "evolution", "fossil", "dinosaur", "bacteria", "virus",
         "protein", "organism", "genetics", "mutation", "enzyme", "microbe", "biology",
         "life form", "reproduction", "anatomy", "brain", "neuron", "disease",
         "infection", "immune", "plant", "fungus", "ecosystem", "biodiversity",
         "molecular", "genome", "chromosome", "stem cell", "cancer", "antibiotic",
         "vaccine", "pathogen", "parasite" >>,
      Climate |->
      << "climate", "weather", "temperature", "warming", "carbon", "emission",
         "greenhouse", "ice", "glacier", "arctic", "antarctic", "sea level", "drought",
         "flood", "hurricane", "storm", "atmosphere", "pollution", "renewable", "energy",
         "fossil fuel", "ocean warming", "heat wave", "wildfire", "deforestation",
         "methane", "ozone", "el nino", "la nina", "precipitation", "rainfall",
         "snowfall", "permafrost", "ecosystem change", "environmental", "sustainability",
         "earth", "global" >> ]

\* the tables as character sequences
PaywalledDomainChars == [i \in DOMAIN PAYWALLED_DOMAINS |-> Chars(PAYWALLED_DOMAINS[i])]

DomainKeywordChars ==
    [d \in Range(DomainOrder) |->
        [i \in DOMAIN DOMAIN_KEYWORDS[d] |-> Chars(DOMAIN_KEYWORDS[d][i])]]

(***************************************************************************)
(* AccessGate: is_paywalled_url                                            *)
(***************************************************************************)
is_paywalled_url(url) ==
    LET url_lower == Lower(url)
    IN  \E i \in DOMAIN PaywalledDomainChars : Contains(url_lower, PaywalledDomainChars[i])

(***************************************************************************)
(* DomainClassifier: classify_domain                                       *)
(***************************************************************************)
\* line 296: text = (title + " " + summary).lower()
ClassifyText(title, summary) == Lower(title \o Space \o summary)

\* line 300: score = sum(1 for kw in keywords if kw in text)
KeywordScore(domain, text) ==
    Cardinality({i \in DOMAIN DomainKeywordChars[domain] :
                    Contains(text, DomainKeywordChars[domain][i])})

\* lines 298-301: the scores dict, keyed in DomainOrder
DomainScores(text) == [i \in DOMAIN DomainOrder |-> KeywordScore(DomainOrder[i], text)]

\* max(scores.values())
MaxScore(scores) == CHOOSE m \in Range(scores) : \A i \in DOMAIN scores : scores[i] <= m

\* the last maximal key instead of the first
ArgMaxLast(scores) ==
    CHOOSE i \in DOMAIN scores :
        /\ scores[i] = MaxScore(scores)
        /\ \A j \in DOMAIN scores : scores[j] = MaxScore(scores) => j <= i

\* max(scores, key=scores.get): Python's max returns the first maximal key in
\* iteration order
ArgMaxFirst(scores) ==
    CHOOSE i \in DOMAIN scores :
        /\ scores[i] = MaxScore(scores)
        /\ \A j \in DOMAIN scores : scores[j] = MaxScore(scores) => i <= j

\* the best topic without the test of line 303
classify_domain_nozero(title, summary) ==
    LET scores == DomainScores(ClassifyText(title, summary))
    IN  DomainOrder[ArgMaxFirst(scores)]

\* lines 294-306
classify_domain(title, summary) ==
    LET scores == DomainScores(ClassifyText(title, summary))
    IN  IF MaxScore(scores) > 0 THEN DomainOrder[ArgMaxFirst(scores)] ELSE None

(***************************************************************************)
(* TextNormalizer: normalize_characters                                    *)
(***************************************************************************)
Apostrophe == Chars("&#39;")

Quot == Chars("&quot;")

Dash == Chars("-")

Ellipsis == Chars("...")

\* lines 316-325: (bad, good) pairs, in order
mojibake_patterns ==
    << << <<"U+00E2", "U+0080", "U+0099">>, Apostrophe >>,
       << <<"U+00E2", "U+0080", "U+0098">>, Apostrophe >>,
       << <<"U+00E2", "U+0080", "U+009C">>, Quot >>,
       << <<"U+00E2", "U+0080", "U+009D">>, Quot >>,
       << <<"U+00E2", "U+0080", "U+0093">>, Dash >>,
       << <<"U+00E2", "U+0080", "U+0094">>, Dash >>,
       << <<"U+00E2", "U+0080", "U+00A6">>, Ellipsis >>,
       << <<"U+00C2", "U+00A0">>, Space >> >>

\* lines 339-359: (char, replacement) pairs, in dict order
unicode_map ==
    << << <<"U+2018">>, Apostrophe >>, << <<"U+2019">>, Apostrophe >>,
       << <<"U+201C">>, Quot >>,       << <<"U+201D">>, Quot >>,
       << <<"U+2032">>, Apostrophe >>, << <<"U+2033">>, Quot >>,
       << <<"U+0060">>, Apostrophe >>, << <<"U+00B4">>, Apostrophe >>,
       << <<"U+2013">>, Dash >>,       << <<"U+2014">>, Dash >>,
       << <<"U+2015">>, Dash >>,       << <<"U+2012">>, Dash >>,
       << <<"U+00A0">>, Space >>,      << <<"U+2026">>, Ellipsis >>,
       << <<"U+00AB">>, Quot >>,       << <<"U+00BB">>, Quot >>,
       << <<"U+201A">>, Apostrophe >>, << <<"U+201E">>, Quot >>,
       << <<"U+00E2">>, Apostrophe >> >>

\* for bad, good in table: text = text.replace(bad, good), from entry k on.
\* An entry whose first character is not in the text replaces nothing, so the
\* loop moves straight to the next entry whose first character is.
RECURSIVE ReplaceEach(_, _, _)
ReplaceEach(t, table, k) ==
    LET present == Range(t)
        live == {j \in k..Len(table) : table[j][1][1] \in present}
    IN  IF live = {} THEN t
        ELSE LET j == Min(live)
             IN  ReplaceEach(ReplaceAll(t, table[j][1], table[j][2]), table, j + 1)

\* line 332: U+00E2 U+0080 and any one character but a newline -> &#39;
SubLeadPair(t) ==
    SubSpans(t, [i \in 1..Len(t) |->
                    IF /\ t[i] = "U+00E2"
                       /\ i + 2 <= Len(t)
                       /\ t[i + 1] = "U+0080"
                       /\ t[i + 2] # "\n"
                    THEN i + 2 ELSE 0],
             [i \in 1..Len(t) |-> Apostrophe], 1)

\* line 333: U+00E2 and any one character but a newline -> &#39;
SubLeadByte(t) ==
    SubSpans(t, [i \in 1..Len(t) |->
                    IF t[i] = "U+00E2" /\ i + 1 <= Len(t) /\ t[i + 1] # "\n"
                    THEN i + 1 ELSE 0],
             [i \in 1..Len(t) |-> Apostrophe], 1)

\* line 335: U+20AC \s* followed by a word character (lookahead) -> &#39;
SubEuroBeforeWord(t) ==
    SubSpans(t, [i \in 1..Len(t) |->
                    IF t[i] = "U+20AC"
                    THEN LET e == RunEndIn(t, i + 1, WhitespaceSet)
                         IN  IF e + 1 <= Len(t) /\ IsWordChar(t[e + 1]) THEN e ELSE 0
                    ELSE 0],
             [i \in 1..Len(t) |-> Apostrophe], 1)

\* line 336: ' U+20AC \s* -> &#39;
SubQuoteEuro(t) ==
    SubSpans(t, [i \in 1..Len(t) |->
                    IF t[i] = "'" /\ i + 1 <= Len(t) /\ t[i + 1] = "U+20AC"
                    THEN RunEndIn(t, i + 2, WhitespaceSet) ELSE 0],
             [i \in 1..Len(t) |-> Apostrophe], 1)

\* lines 365-366: re.sub(r'[...]', repl, text) for a class of single characters
SubClass(t, class, r) ==
    SubSpans(t, [i \in 1..Len(t) |-> IF t[i] \in class THEN i ELSE 0],
             [i \in 1..Len(t) |-> r], 1)

normalize_characters(text) ==
    IF text = << >> THEN text
    ELSE LET s1 == ReplaceEach(text, mojibake_patterns, 1)
             s2 == SubQuoteEuro(SubEuroBeforeWord(SubLeadByte(SubLeadPair(s1))))
             s3 == ReplaceEach(s2, unicode_map, 1)
             s4 == SubClass(s3, {"U+2018", "U+2019", "U+201A", "U+201B"}, Apostrophe)
         IN  SubClass(s4, {"U+201C", "U+201D", "U+201E", "U+201F"}, Quot)

(***************************************************************************)
(* fix_spacing_and_grammar and the Vocabulary Simplifier simplify_text     *)
(*                                                                         *)
(* fix_spacing_and_grammar is a fixed list of re.sub passes.  The passes   *)
(* translated here are the ones whose pattern occurs in some text the      *)
(* model processes; every other pass of lines 377-475 leaves all of those  *)
(* texts unchanged and is left out.                                        *)
(***************************************************************************)
PunctSet == {".", ",", ";", ":", "!", "?"}

\* line 402: re.sub(r'(\d)([a-zA-Z])', r'\1 \2', text)
SpaceDigitLetter(t) ==
    SubSpans(t, [i \in 1..Len(t) |->
                    IF t[i] \in DigitSet /\ i + 1 <= Len(t) /\ t[i + 1] \in AlphaSet
                    THEN i + 1 ELSE 0],
             [i \in 1..Len(t) |-> <<t[i], " ", t[i + 1]>>], 1)

\* line 405: re.sub(r'([a-zA-Z])(\d)', r'\1 \2', text)
SpaceLetterDigit(t) ==
    SubSpans(t, [i \in 1..Len(t) |->
                    IF t[i] \in AlphaSet /\ i + 1 <= Len(t) /\ t[i + 1] \in DigitSet
                    THEN i + 1 ELSE 0],
             [i \in 1..Len(t) |-> <<t[i], " ", t[i + 1]>>], 1)

\* line 468: re.sub(r'\s+([.,;:!?])', r'\1', text)
NoSpaceBeforePunct(t) ==
    SubSpans(t, [i \in 1..Len(t) |->
                    IF IsSpace(t[i])
                    THEN LET e == RunEndIn(t, i, WhitespaceSet)
                         IN  IF e + 1 <= Len(t) /\ t[e + 1] \in PunctSet THEN e + 1 ELSE 0
                    ELSE 0],
             [i \in 1..Len(t) |-> <<t[RunEndIn(t, i, WhitespaceSet) + 1]>>], 1)

\* line 471: re.sub(r'([.,;:!?])([A-Za-z])', r'\1 \2', text)
SpaceAfterPunct(t) ==
    SubSpans(t, [i \in 1..Len(t) |->
                    IF t[i] \in PunctSet /\ i + 1 <= Len(t) /\ t[i + 1] \in AlphaSet
                    THEN i + 1 ELSE 0],
             [i \in 1..Len(t) |-> <<t[i], " ", t[i + 1]>>], 1)

\* lines 474-475: re.sub(r'\.{2,}', '.', text), re.sub(r',{2,}', ',', text)
SingleMark(t, c) ==
    SubSpans(t, [i \in 1..Len(t) |->
                    IF t[i] = c /\ i + 1 <= Len(t) /\ t[i + 1] = c
                    THEN RunEndIn(t, i, {c}) ELSE 0],
             [i \in 1..Len(t) |-> <<c>>], 1)

fix_spacing_and_grammar(text) ==
    IF text = << >> THEN text
    ELSE LET s1 == SpaceLetterDigit(SpaceDigitLetter(text))
             s2 == NoSpaceBeforePunct(CollapseWhitespace(s1))
             s3 == SingleMark(SingleMark(SpaceAfterPunct(s2), "."), ",")
         IN  Strip(s3)

\* lines 492-533: complex word -> simple word, in dict order
replacements ==
    << <<"approximately", "about">>, <<"utilize", "use">>, <<"demonstrate", "show">>,
       <<"investigate", "study">>, <<"significant", "important">>,
       <<"subsequently", "then">>, <<"preliminary", "early">>, <<"hypothesis", "idea">>,
       <<"methodology", "method">>, <<"phenomenon", "event">>,
       <<"unprecedented", "never seen before">>, <<"substantial", "large">>,
       <<"consequently", "so">>, <<"furthermore", "also">>, <<"nevertheless", "but">>,
       <<"comprehensive", "complete">>, <<"fundamental", "basic">>,
       <<"facilitate", "help">>, <<"implement", "use">>, <<"indicate", "show">>,
       <<"sufficient", "enough">>, <<"obtain", "get">>, <<"require", "need">>,
       <<"maintain", "keep">>, <<"establish", "set up">>, <<"additional", "more">>,
       <<"numerous", "many">>, <<"attempt", "try">>, <<"commence", "start">>,
       <<"terminate", "end">>, <<"endeavor", "try">>, <<"ascertain", "find out">>,
       <<"constitute", "make up">>, <<"regarding", "about">>, <<"prior to", "before">>,
       <<"in addition to", "besides">>, <<"in order to", "to">>,
       <<"due to the fact that", "because">>, <<"at this point in time", "now">>,
       <<"in the event that", "if">> >>

ReplacementChars == [k \in DOMAIN replacements |->
                        <<Chars(replacements[k][1]), Chars(replacements[k][2])>>]

\* lines 535-537: one case-insensitive pass per table entry, from entry k on.
\* An entry whose first two characters are nowhere adjacent in the lower-cased
\* text replaces nothing, so the loop moves straight to the next entry whose
\* first two characters are.
RECURSIVE ReplaceEachCI(_, _, _)
ReplaceEachCI(t, table, k) ==
    LET lower == Lower(t)
        pairs == {<<lower[i], lower[i + 1]>> : i \in 1..(Len(t) - 1)}
        live == {j \in k..Len(table) : <<table[j][1][1], table[j][1][2]>> \in pairs}
    IN  IF live = {} THEN t
        ELSE LET j == Min(live)
             IN  ReplaceEachCI(ReplaceAllCI(t, table[j][1], table[j][2]), table, j + 1)

simplify_text(text) ==
    LET normal == normalize_characters(text)
        spaced == fix_spacing_and_grammar(normal)
        clean == Strip(CollapseWhitespace(spaced))
    IN  ReplaceEachCI(clean, ReplacementChars, 1)

(***************************************************************************)
(* is_similar_to_title                                                     *)
(***************************************************************************)
\* set(re.findall(r'\b\w{4,}\b', text.lower())): the maximal runs of word
\* characters that are at least 4 long
LongWords(text) ==
    LET t == Lower(text)
        starts == {i \in 1..Len(t) : IsWordChar(t[i]) /\ (i = 1 \/ ~IsWordChar(t[i - 1]))}
    IN  {SubSeq(t, i, RunEndIn(t, i, WordSet)) :
            i \in {k \in starts : RunEndIn(t, k, WordSet) - k + 1 >= 4}}

\* a similarity test that is met by a ratio of 0.6
is_similar_to_title_from_six_tenths(sentence, title) ==
    LET sent_words == LongWords(sentence)
        title_words == LongWords(title)
        overlap == Cardinality(sent_words \cap title_words)
    IN  sent_words # {} /\ title_words # {}
        /\ overlap * 5 >= Min({Cardinality(sent_words), Cardinality(title_words)}) * 3

\* similarity = overlap / min(len(sent_words), len(title_words)) > 0.6, in
\* integers: overlap * 5 > min * 3
is_similar_to_title(sentence, title) ==
    LET sent_words == LongWords(sentence)
        title_words == LongWords(title)
        overlap == Cardinality(sent_words \cap title_words)
        smaller == IF Cardinality(sent_words) <= Cardinality(title_words)
                   THEN Cardinality(sent_words) ELSE Cardinality(title_words)
    IN  IF sent_words = {} \/ title_words = {} THEN FALSE
        ELSE overlap * 5 > smaller * 3

(***************************************************************************)
(* Distiller: generate_simple_explanation, stage by stage                  *)
(***************************************************************************)
SentenceEndSet == {".", "!", "?"}

\* line 795: all_text = f"{summary} {full_content}".strip()
AssembleText(summary, full_content) == Strip(summary \o Space \o full_content)

\* line 802: re.split(r'(?<=[.!?])\s+(?=[A-Z])', all_text), from position pos on
RECURSIVE SplitSentences(_, _)
SplitSentences(t, pos) ==
    LET cuts == {i \in (pos + 1)..Len(t) :
                    /\ IsSpace(t[i])
                    /\ t[i - 1] \in SentenceEndSet
                    /\ LET e == RunEndIn(t, i, WhitespaceSet)
                       IN  e + 1 <= Len(t) /\ t[e + 1] \in UpperSet}
    IN  IF cuts = {} THEN <<SubSeq(t, pos, Len(t))>>
        ELSE LET c == Min(cuts)
             IN  <<SubSeq(t, pos, c - 1)>>
                     \o SplitSentences(t, RunEndIn(t, c, WhitespaceSet) + 1)

MinPartLen == 50

\* lines 801-805: the stripped parts longer than 50 characters
Segment(all_text) ==
    LET parts == SplitSentences(all_text, 1)
        stripped == [k \in DOMAIN parts |-> Strip(parts[k])]
    IN  SelectSeq(stripped, LAMBDA part : Len(part) > MinPartLen)

\* lines 809-813: the sentences that do not restate the title
\* the title filter left out
FilterTitleOff(sentences, title_simplified) == sentences

\* lines 809-813: the sentences that do not restate the title
FilterTitle(sentences, title_simplified) ==
    SelectSeq(sentences, LAMBDA sent : ~is_similar_to_title(sent, title_simplified))

(***************************************************************************)
(* Entity/noise scrubbing, lines 815-919.  As for fix_spacing_and_grammar, *)
(* the passes translated are those whose pattern occurs in some sentence   *)
(* the model processes; the other passes leave all of them unchanged.      *)
(***************************************************************************)
DoubleQuote == "\""

\* lines 819-820: re.sub(r'"[^"]*"', '', sent)
RemoveQuoted(t) ==
    SubSpans(t, [i \in 1..Len(t) |->
                    IF t[i] = DoubleQuote
                    THEN LET e == RunEndIn(t, i + 1, (Range(t) \ {DoubleQuote}))
                         IN  IF e + 1 <= Len(t) THEN e + 1 ELSE 0
                    ELSE 0],
             [i \in 1..Len(t) |-> << >>], 1)

\* line 821: re.sub(r'"[^"]*$', '', sent): an unclosed quote runs to the end
RemoveOpenQuote(t) ==
    LET opens == {i \in 1..Len(t) :
                    t[i] = DoubleQuote /\ \A j \in (i + 1)..Len(t) : t[j] # DoubleQuote}
    IN  IF opens = {} THEN t ELSE SubSeq(t, 1, Min(opens) - 1)

Agencies == <<Chars("NASA"), Chars("NOAA"), Chars("NSF"), Chars("NIH"), Chars("ESA")>>

\* line 843: re.sub(r'\b(NASA|NOAA|NSF|NIH|ESA)\b', 'scientists', sent)
AgencyEnd(t, i) ==
    IF t[i] \in {"N", "E"} /\ WordBoundary(t, i)
    THEN LET hits == {k \in DOMAIN Agencies :
                        /\ MatchAt(t, i, Agencies[k])
                        /\ WordBoundary(t, i + Len(Agencies[k]))}
         IN  IF hits = {} THEN 0 ELSE i + Len(Agencies[Min(hits)]) - 1
    ELSE 0

ReplaceAgencies(t) ==
    SubSpans(t, [i \in 1..Len(t) |-> AgencyEnd(t, i)],
             [i \in 1..Len(t) |-> Chars("scientists")], 1)

\* line 848: re.sub(r'\s*\([A-Z]{2,6}\)', '', sent)
AbbreviationEnd(t, i) ==
    IF IsSpace(t[i]) \/ t[i] = "("
    THEN LET open == RunEndIn(t, i, WhitespaceSet) + 1
             last == RunEndIn(t, open + 1, UpperSet)
         IN  IF /\ open <= Len(t)
                /\ t[open] = "("
                /\ last - open >= 2
                /\ last - open <= 6
                /\ last + 1 <= Len(t)
                /\ t[last + 1] = ")"
             THEN last + 1 ELSE 0
    ELSE 0

RemoveAbbreviations(t) ==
    SubSpans(t, [i \in 1..Len(t) |-> AbbreviationEnd(t, i)],
             [i \in 1..Len(t) |-> << >>], 1)

Months ==
    << Chars("January"), Chars("February"), Chars("March"), Chars("April"),
       Chars("May"), Chars("June"), Chars("July"), Chars("August"),
       Chars("September"), Chars("October"), Chars("November"), Chars("December") >>

\* line 864: re.sub(r'\bon\s+(January|...|December)\s+\d{1,2}', '', sent)
OnDateEnd(t, i) ==
    IF t[i] = "o" /\ MatchAt(t, i, Chars("on")) /\ WordBoundary(t, i)
          /\ i + 2 <= Len(t) /\ IsSpace(t[i + 2])
    THEN LET m == RunEndIn(t, i + 2, WhitespaceSet) + 1
             hits == {k \in DOMAIN Months : MatchAt(t, m, Months[k])}
         IN  IF hits = {} THEN 0
             ELSE LET a == m + Len(Months[Min(hits)])
                      d == RunEndIn(t, a, WhitespaceSet) + 1
                  IN  IF a <= Len(t) /\ IsSpace(t[a]) /\ d <= Len(t) /\ t[d] \in DigitSet
                      THEN (IF d + 1 <= Len(t) /\ t[d + 1] \in DigitSet THEN d + 1 ELSE d)
                      ELSE 0
    ELSE 0

RemoveOnDate(t) ==
    SubSpans(t, [i \in 1..Len(t) |-> OnDateEnd(t, i)],
             [i \in 1..Len(t) |-> << >>], 1)

StudyWords == <<Chars("study"), Chars("research"), Chars("paper"), Chars("report")>>

\* line 865: re.sub(r'\b\d{4}\s+(study|research|paper|report)', 'new research', sent)
DatedStudyEnd(t, i) ==
    IF /\ t[i] \in DigitSet
       /\ WordBoundary(t, i)
       /\ i + 4 <= Len(t)
       /\ \A k \in i..(i + 3) : t[k] \in DigitSet
       /\ IsSpace(t[i + 4])
    THEN LET w == RunEndIn(t, i + 4, WhitespaceSet) + 1
             hits == {k \in DOMAIN StudyWords : MatchAt(t, w, StudyWords[k])}
         IN  IF hits = {} THEN 0 ELSE w + Len(StudyWords[Min(hits)]) - 1
    ELSE 0

ReplaceDatedStudy(t) ==
    SubSpans(t, [i \in 1..Len(t) |-> DatedStudyEnd(t, i)],
             [i \in 1..Len(t) |-> Chars("new research")], 1)

AttributionTailSet == WordSet \cup WhitespaceSet \cup {".", ","}

SaidVerbs == <<Chars("said"), Chars("says"), Chars("noted"), Chars("added"), Chars("explained")>>

SourceWords == <<Chars("according to"), Chars("led by")>>

\* lines 892-893: re.sub(r',?\s*(verb|...)\s+[\w\s\.,]+$', '', sent,
\* flags=re.IGNORECASE): from the first verb that is followed by whitespace and
\* then only by word characters, whitespace, '.' and ',' up to the end, back over
\* the whitespace before it and one comma before that
RemoveAttribution(t, verbs) ==
    LET tails == {j \in 1..Len(t) :
                    \E k \in DOMAIN verbs :
                        /\ LowerChar(t[j]) = verbs[k][1]
                        /\ MatchAtCI(t, j, verbs[k])
                        /\ LET a == j + Len(verbs[k])
                           IN  /\ a + 1 <= Len(t)
                               /\ IsSpace(t[a])
                               /\ \A x \in a..Len(t) : t[x] \in AttributionTailSet}
    IN  IF tails = {} THEN t
        ELSE LET j == Min(tails)
                 w == Max({x \in 1..j : x = 1 \/ ~IsSpace(t[x - 1])})
                 i == IF w > 1 /\ t[w - 1] = "," THEN w - 1 ELSE w
             IN  SubSeq(t, 1, i - 1)

\* line 899: re.sub(r'\s+\.', '.', sent)
NoSpaceBeforePeriod(t) ==
    SubSpans(t, [i \in 1..Len(t) |->
                    IF IsSpace(t[i])
                    THEN LET e == RunEndIn(t, i, WhitespaceSet)
                         IN  IF e + 1 <= Len(t) /\ t[e + 1] = "." THEN e + 1 ELSE 0
                    ELSE 0],
             [i \in 1..Len(t) |-> <<".">>], 1)

\* line 901: re.sub(r',\s*,', ',', sent) and line 903: re.sub(r',\s*\.', '.', sent)
CommaBefore(t, c) ==
    SubSpans(t, [i \in 1..Len(t) |->
                    IF t[i] = ","
                    THEN LET e == RunEndIn(t, i + 1, WhitespaceSet)
                         IN  IF e + 1 <= Len(t) /\ t[e + 1] = c THEN e + 1 ELSE 0
                    ELSE 0],
             [i \in 1..Len(t) |-> <<c>>], 1)

\* lines 819-919 on one sentence
Scrub(sent) ==
    LET s1 == RemoveOpenQuote(RemoveQuoted(RemoveQuoted(sent)))
        s2 == RemoveAbbreviations(ReplaceAgencies(s1))
        s3 == ReplaceDatedStudy(RemoveOnDate(s2))
        s4 == RemoveAttribution(RemoveAttribution(s3, SaidVerbs), SourceWords)
        s5 == Strip(CollapseWhitespace(s4))
        s6 == CommaBefore(SingleMark(NoSpaceBeforePeriod(s5), "."), ",")
        s7 == CommaBefore(s6, ".")
    IN  Strip(CollapseWhitespace(s7))

(***************************************************************************)
(* Structural rejection, lines 921-964                                     *)
(***************************************************************************)
MinCleanLen == 60

\* the threshold of line 922 with a digit lost
TooShortTypo(sent) == Len(sent) < 6

\* line 922: len(sent) < 60
TooShort(sent) == Len(sent) < MinCleanLen

\* line 926: sent[0].islower() or sent[0] in '"("'
BadStart(sent) == sent # << >> /\ (sent[1] \in LowerSet \/ sent[1] \in {DoubleQuote, "("})

IsAlphaWord(w) == w # << >> /\ \A i \in 1..Len(w) : w[i] \in AlphaSet

IsCapitalized(w) ==
    Len(w) >= 2 /\ w[1] \in UpperSet /\ \A i \in 2..Len(w) : w[i] \in LowerSet

\* line 930: re.match(r'^[A-Z][a-z]+(\s+[A-Z][a-z]+){1,5}\s*$', sent): two to six
\* capitalized words and nothing else
LooksLikeHeader(sent) ==
    LET words == SplitWords(sent)
    IN  /\ sent # << >>
        /\ ~IsSpace(sent[1])
        /\ Len(words) >= 2
        /\ Len(words) <= 6
        /\ \A k \in DOMAIN words : IsCapitalized(words[k])

\* line 947 with re.IGNORECASE (line 951):
\* r'^[A-Z][a-z]+(\s+[a-z]+){2,12}\s+The\s+': the sentence opens with 3 to 13
\* purely alphabetic words (the first at least two letters long), then the
\* word "the" in any case, then more text
HeaderThenThe(sent) ==
    LET words == SplitWords(sent)
    IN  /\ sent # << >>
        /\ ~IsSpace(sent[1])
        /\ \E k \in 4..14 :
              /\ k < Len(words)
              /\ Lower(words[k]) = Chars("the")
              /\ Len(words[1]) >= 2
              /\ \A j \in 1..(k - 1) : IsAlphaWord(words[j])

\* lines 921-955: the scrubbed sentence is dropped
Rejected(sent) ==
    \/ TooShort(sent)
    \/ BadStart(sent)
    \/ LooksLikeHeader(sent)
    \/ HeaderThenThe(sent)

\* lines 958-959: a final '.' unless the sentence ends in '.', '!' or '?'
\* (lines 962-963 never apply: a lower-case start was rejected at line 926)
EnsureEnding(sent) ==
    IF sent # << >> /\ sent[Len(sent)] \notin SentenceEndSet THEN sent \o <<".">> ELSE sent

\* lines 816-964 on one candidate: the cleaned sentence, or nothing when the
\* candidate is dropped
CleanOne(raw) ==
    LET sent == Scrub(raw)
    IN  IF sent = << >> \/ Rejected(sent) THEN << >> ELSE <<EnsureEnding(sent)>>

RECURSIVE CleanFrom(_, _)
CleanFrom(sentences, k) ==
    IF k > Len(sentences) THEN << >>
    ELSE CleanOne(sentences[k]) \o CleanFrom(sentences, k + 1)

\* rejected candidates kept as they came in, instead of dropped
RECURSIVE KeepRejectedFrom(_, _)
KeepRejectedFrom(sentences, k) ==
    IF k > Len(sentences) THEN << >>
    ELSE (IF CleanOne(sentences[k]) = << >> THEN <<sentences[k]>> ELSE CleanOne(sentences[k]))
             \o KeepRejectedFrom(sentences, k + 1)

KeepRejected(sentences) == KeepRejectedFrom(sentences, 1)

\* lines 815-966: clean_sentences
CleanSentences(sentences) == CleanFrom(sentences, 1)

(***************************************************************************)
(* Salience scoring, lines 968-994                                         *)
(***************************************************************************)
discovery_words ==
    << "found", "discovered", "shows", "revealed", "study", "research",
       "scientists", "researchers", "measured", "data", "results" >>

impact_words ==
    << "could", "may", "might", "help", "important", "means",
       "change", "future", "first", "new", "understand" >>

DiscoveryChars == [k \in DOMAIN discovery_words |-> Chars(discovery_words[k])]

ImpactChars == [k \in DOMAIN impact_words |-> Chars(impact_words[k])]

MaxScoredLen == 300

\* a score that counts every occurrence of an indicator word
ScoreEveryOccurrence(sent) ==
    LET Count(word) == Cardinality({i \in 1..Len(sent) : MatchAtCI(sent, i, word)})
        Total(table) == LET RECURSIVE Sum(_)
                            Sum(k) == IF k = 0 THEN 0 ELSE Count(table[k]) + Sum(k - 1)
                        IN  Sum(Len(table))
    IN  2 * Total(DiscoveryChars) + Total(ImpactChars)
        + (IF \E i \in 1..Len(sent) : sent[i] \in DigitSet THEN 1 ELSE 0)

\* lines 980-990
Score(sent) ==
    LET sent_lower == Lower(sent)
    IN  2 * Cardinality({k \in DOMAIN DiscoveryChars : Contains(sent_lower, DiscoveryChars[k])})
        + Cardinality({k \in DOMAIN ImpactChars : Contains(sent_lower, ImpactChars[k])})
        + (IF \E i \in 1..Len(sent) : sent[i] \in DigitSet THEN 1 ELSE 0)

\* scoring that does not skip the long sentences
ScoreAllAnyLength(sentences) == [k \in DOMAIN sentences |-> <<Score(sentences[k]), sentences[k]>>]

\* lines 975-992: (score, sent) for the sentences of at most 300 characters
ScoreAll(sentences) ==
    LET kept == SelectSeq(sentences, LAMBDA sent : Len(sent) <= MaxScoredLen)
    IN  [k \in DOMAIN kept |-> <<Score(kept[k]), kept[k]>>]

\* a descending sort that turns entries of equal score around
SortScoredTiesReversed(scored) ==
    LET Rank(i) == 1 + Cardinality({j \in DOMAIN scored :
                        \/ scored[j][1] > scored[i][1]
                        \/ (scored[j][1] = scored[i][1] /\ j > i)})
    IN  [k \in DOMAIN scored |-> scored[CHOOSE i \in DOMAIN scored : Rank(i) = k]]

\* line 994: scored.sort(reverse=True, key=lambda x: x[0]); the sort is stable,
\* so entries of equal score keep their order
SortScored(scored) ==
    LET Rank(i) == 1 + Cardinality({j \in DOMAIN scored :
                        \/ scored[j][1] > scored[i][1]
                        \/ (scored[j][1] = scored[i][1] /\ j < i)})
    IN  [k \in DOMAIN scored |-> scored[CHOOSE i \in DOMAIN scored : Rank(i) = k]]

(***************************************************************************)
(* Selection, backfill, final fallback and rendering, lines 996-1040       *)
(***************************************************************************)
MaxBullets == 3

MinBullets == 2

MinSummaryLen == 50

Placeholder == Chars("Scientists made new discoveries in this field of research.")

\* line 1002: set(sent.lower().split())
SentWords(sent) == Range(SplitWords(Lower(sent)))

\* the overlap test of lines 1003-1007 left out
NeverRedundant(sent_words, used) == FALSE

\* lines 1003-1007
IsRedundant(sent_words, used) ==
    \E k \in DOMAIN used :
        2 * Cardinality(sent_words \cap used[k]) > Cardinality(sent_words)

\* an iteration of the selection loop that does not look at the score
SelectOneAnyScore(bullets, used, entry) ==
    LET sent_words == SentWords(entry[2])
    IN  IF ~IsRedundant(sent_words, used)
        THEN [bullet_points |-> Append(bullets, entry[2]),
              used_words |-> Append(used, sent_words)]
        ELSE [bullet_points |-> bullets, used_words |-> used]

\* lines 1001-1011: one iteration of the selection loop on entry (score, sent)
SelectOne(bullets, used, entry) ==
    LET sent_words == SentWords(entry[2])
    IN  IF ~IsRedundant(sent_words, used) /\ entry[1] > 0
        THEN [bullet_points |-> Append(bullets, entry[2]),
              used_words |-> Append(used, sent_words)]
        ELSE [bullet_points |-> bullets, used_words |-> used]

\* lines 1000-1014: the whole loop from entry i on
RECURSIVE SelectAll(_, _, _, _)
SelectAll(scored, i, bullets, used) ==
    IF i > Len(scored) THEN [bullet_points |-> bullets, used_words |-> used]
    ELSE LET st == SelectOne(bullets, used, scored[i])
         IN  IF Len(st.bullet_points) >= MaxBullets THEN st
             ELSE SelectAll(scored, i + 1, st.bullet_points, st.used_words)

\* a backfill loop that does not look whether the sentence is in the list
RECURSIVE BackfillFromAnySentence(_, _, _)
BackfillFromAnySentence(bullets, sentences, k) ==
    IF k > Len(sentences) THEN bullets
    ELSE LET added == Append(bullets, sentences[k])
         IN  IF Len(added) >= MinBullets THEN added
             ELSE BackfillFromAnySentence(added, sentences, k + 1)

\* lines 1018-1022
RECURSIVE BackfillFrom(_, _, _)
BackfillFrom(bullets, sentences, k) ==
    IF k > Len(sentences) THEN bullets
    ELSE LET added == IF sentences[k] \notin Range(bullets)
                      THEN Append(bullets, sentences[k]) ELSE bullets
         IN  IF Len(added) >= MinBullets THEN added
             ELSE BackfillFrom(added, sentences, k + 1)

\* a backfill that runs whatever the number of selected bullets
BackfillAlways(bullets, sentences) == BackfillFrom(bullets, sentences, 1)

\* lines 1017-1022
Backfill(bullets, sentences) ==
    IF Len(bullets) < MinBullets THEN BackfillFrom(bullets, sentences, 1) ELSE bullets

\* a final fallback that takes a simplified summary of exactly 50 characters
FinalFallbackFromFifty(bullets, summary) ==
    IF bullets # << >> THEN bullets
    ELSE LET simple_summary == simplify_text(summary)
         IN  IF Len(simple_summary) >= MinSummaryLen THEN <<simple_summary>>
             ELSE <<Placeholder>>

\* the final fallback without the generic placeholder
FinalFallbackSummaryOnly(bullets, summary) ==
    IF bullets # << >> THEN bullets ELSE <<simplify_text(summary)>>

\* the final fallback left out
NoFinalFallback(bullets, summary) == bullets

\* lines 1025-1030
FinalFallback(bullets, summary) ==
    IF bullets # << >> THEN bullets
    ELSE LET simple_summary == simplify_text(summary)
         IN  IF Len(simple_summary) > MinSummaryLen THEN <<simple_summary>>
             ELSE <<Placeholder>>

\* lines 1033-1038: the <li> items, fix_spacing_and_grammar of bullet_points[:3]
Render(bullets) ==
    [k \in 1..(IF Len(bullets) < MaxBullets THEN Len(bullets) ELSE MaxBullets) |->
        fix_spacing_and_grammar(bullets[k])]

\* lines 973-1040: from the cleaned candidates to the rendered bullets
Explain(clean, summary) ==
    Render(FinalFallback(Backfill(SelectAll(SortScored(ScoreAll(clean)), 1, << >>, << >>).bullet_points,
                                  clean), summary))

\* lines 791-1040 in one piece
generate_simple_explanation(title, summary, full_content) ==
    Explain(CleanSentences(FilterTitle(Segment(simplify_text(AssembleText(summary, full_content))),
                                       simplify_text(title))),
            summary)

(***************************************************************************)
(* AccessGate on a fetched page: check_for_paywall, fetch_article_content  *)
(*                                                                         *)
(* A response is a record: status "error" (the request raised) or "ok";    *)
(* for "ok", text is soup.get_text(), classes and ids are the class and id *)
(* attribute values of the page's elements, data_paywall tells whether an  *)
(* element has a data-paywall attribute, paragraphs are the texts of the   *)
(* <p> elements of the article and image is what extract_article_image     *)
(* finds (nothing, or one URL).                                            *)
(***************************************************************************)
PAYWALL_INDICATORS ==
    << "subscribe to read", "subscription required", "premium content",
       "members only", "sign in to read", "create an account to continue",
       "free trial", "unlock this article", "paywall", "subscriber-only",
       "paid content", "register to continue reading", "already a subscriber",
       "become a member" >>

\* s[:n]
Take(s, n) == IF Len(s) <= n THEN s ELSE SubSeq(s, 1, n)

\* " ".join(parts)
RECURSIVE JoinTexts(_)
JoinTexts(parts) ==
    IF parts = << >> THEN << >>
    ELSE IF Len(parts) = 1 THEN parts[1]
    ELSE parts[1] \o Space \o JoinTexts(Tail(parts))

\* a narrower element test: only a class that contains "paywall"
HasPaywallElementNarrow(page) ==
    \E c \in page.classes : Contains(c, Chars("paywall"))

\* line 273: soup.select('[class*="paywall"], [class*="subscribe"],
\* [class*="premium"], [id*="paywall"]') is not empty
HasPaywallElement(page) ==
    \/ \E c \in page.classes :
          \/ Contains(c, Chars("paywall"))
          \/ Contains(c, Chars("subscribe"))
          \/ Contains(c, Chars("premium"))
    \/ \E i \in page.ids : Contains(i, Chars("paywall"))

\* lines 278-289: one of the paywall_selectors matches
HasPaywallSelector(page) ==
    \/ \E c \in page.classes :
          \/ Contains(c, Chars("paywall"))
          \/ Contains(c, Chars("subscriber-only"))
          \/ Contains(c, Chars("premium-content"))
          \/ Contains(c, Chars("locked-content"))
          \/ Chars("subscription-required") \in Range(SplitWords(c))
    \/ page.data_paywall

\* lines 262-291
check_for_paywall(page, url) ==
    \/ is_paywalled_url(url)
    \/ /\ \E k \in DOMAIN PAYWALL_INDICATORS :
             Contains(Lower(page.text), Chars(PAYWALL_INDICATORS[k]))
       /\ HasPaywallElement(page)
    \/ HasPaywallSelector(page)

MaxParagraphs == 8

EnoughContent == 300

MinParagraphLen == 50

MaxContentLen == 2500

\* lines 564-594: the first 8 paragraphs of the article if they make more than
\* 300 characters; else, if they make fewer than 300, the first 8 of the
\* paragraphs longer than 50 characters
ExtractContent(paragraphs) ==
    LET content == JoinTexts(Take(paragraphs, MaxParagraphs))
        good_paragraphs == SelectSeq(paragraphs, LAMBDA q : Len(q) > MinParagraphLen)
    IN  IF Len(content) < EnoughContent
        THEN JoinTexts(Take(good_paragraphs, MaxParagraphs))
        ELSE content

NoContent == [content |-> << >>, image |-> << >>]

\* lines 542-602; image is << >> for None and <<url>> for an image URL
fetch_article_content(url, response) ==
    IF is_paywalled_url(url) THEN NoContent
    ELSE IF response.status = "error" THEN NoContent
    ELSE IF check_for_paywall(response, url) THEN NoContent
    ELSE [content |-> Take(fix_spacing_and_grammar(ExtractContent(response.paragraphs)),
                           MaxContentLen),
          image |-> response.image]

(***************************************************************************)
(* extract_key_statistic and calculate_reading_time.  The stat_patterns    *)
(* are written as syntax trees and matched the way re matches them: the    *)
(* alternatives and the repetition counts of a pattern are tried in order  *)
(* of preference (the first alternative first, the longest repetition      *)
(* first), and the first way that lets the whole pattern match is taken.   *)
(* The result is << >> for None and <<text>> for a statistic.              *)
(***************************************************************************)
\* a literal, given in lower case (the patterns are searched with re.IGNORECASE)
Lit(str) == [k |-> "lit", s |-> Chars(str)]

\* [S]{lo,hi}, greedy
Some(S, lo, hi) == [k |-> "set", S |-> S, lo |-> lo, hi |-> hi, open |-> FALSE]

\* [S]{lo,}, greedy: S+ is Many(S, 1) and S* is Many(S, 0)
Many(S, lo) == [k |-> "set", S |-> S, lo |-> lo, hi |-> lo, open |-> TRUE]

\* the parts one after the other
Cat(parts) == [k |-> "cat", parts |-> parts]

\* (?:a|b|...)
Alt(parts) == [k |-> "alt", parts |-> parts]

\* (?:body)?, greedy
Opt(body) == [k |-> "opt", body |-> body]

\* (?:body)*, greedy
Star(body) == [k |-> "star", body |-> body]

\* the positions right after the matches of node that begin at position i of
\* t, in the order in which re tries them
RECURSIVE Ends(_, _, _)
RECURSIVE CatEnds(_, _, _, _)
RECURSIVE AltEnds(_, _, _, _)
RECURSIVE ThenCat(_, _, _, _, _)
RECURSIVE ThenStar(_, _, _, _)
Ends(node, t, i) ==
    CASE node.k = "lit" -> IF MatchAtCI(t, i, node.s) THEN <<i + Len(node.s)>> ELSE << >>
      [] node.k = "set" ->
            LET run == IF i <= Len(t) /\ t[i] \in node.S THEN RunEndIn(t, i, node.S) - i + 1 ELSE 0
                most == IF node.open \/ run <= node.hi THEN run ELSE node.hi
            IN  IF most < node.lo THEN << >>
                ELSE [j \in 1..(most - node.lo + 1) |-> i + most - j + 1]
      [] node.k = "cat" -> CatEnds(node.parts, 1, t, i)
      [] node.k = "alt" -> AltEnds(node.parts, 1, t, i)
      [] node.k = "opt" -> Ends(node.body, t, i) \o <<i>>
      [] node.k = "star" -> ThenStar(node, Ends(node.body, t, i), 1, t) \o <<i>>

\* parts[n..] matched from position i on
CatEnds(parts, n, t, i) ==
    IF n > Len(parts) THEN <<i>>
    ELSE ThenCat(parts, n + 1, Ends(parts[n], t, i), 1, t)

\* parts[n..] matched from each of ends[j..] on
ThenCat(parts, n, ends, j, t) ==
    IF j > Len(ends) THEN << >>
    ELSE CatEnds(parts, n, t, ends[j]) \o ThenCat(parts, n, ends, j + 1, t)

\* parts[n], else parts[n + 1], ...
AltEnds(parts, n, t, i) ==
    IF n > Len(parts) THEN << >>
    ELSE Ends(parts[n], t, i) \o AltEnds(parts, n + 1, t, i)

\* one more round of the star from each of ends[j..] on
ThenStar(node, ends, j, t) ==
    IF j > Len(ends) THEN << >>
    ELSE Ends(node, t, ends[j]) \o ThenStar(node, ends, j + 1, t)

\* [a-zA-Z\s]
LettersAndSpace == AlphaSet \cup WhitespaceSet

\* \s+ and \s*
Gap == Many(WhitespaceSet, 1)

MaybeGap == Many(WhitespaceSet, 0)

\* \d+(?:,\d{3})*
Grouped == Cat(<<Many(DigitSet, 1), Star(Cat(<<Lit(","), Some(DigitSet, 3, 3)>>))>>)

\* (?:\.\d+)?
Decimals == Opt(Cat(<<Lit("."), Many(DigitSet, 1)>>))

\* word followed by an optional s
Plural(word) == Cat(<<Lit(word), Opt(Lit("s"))>>)

\* lines 670-684
stat_patterns ==
    << \* percentages
       Cat(<<Many(DigitSet, 1), Decimals, MaybeGap, Alt(<<Lit("percent"), Lit("%")>>), Gap,
             Opt(Cat(<<Lit("of"), Gap>>)), Some(LettersAndSpace, 5, 40)>>),
       \* times / multiples
       Cat(<<Grouped, Decimals, MaybeGap, Alt(<<Plural("time"), Lit("x")>>), Gap,
             Opt(Alt(<<Cat(<<Lit("more"), Gap>>), Cat(<<Lit("less"), Gap>>),
                       Cat(<<Lit("faster"), Gap>>), Cat(<<Lit("slower"), Gap>>)>>)),
             Some(LettersAndSpace, 3, 30)>>),
       \* large numbers with units
       Cat(<<Grouped, Decimals, MaybeGap,
             Alt(<<Lit("million"), Lit("billion"), Lit("trillion"), Lit("thousand")>>), Gap,
             Some(LettersAndSpace, 3, 30)>>),
       \* years / age
       Cat(<<Grouped, Decimals, MaybeGap,
             Alt(<<Lit("year"), Lit("million year"), Lit("billion year")>>), Opt(Lit("s")), Gap,
             Alt(<<Lit("old"), Lit("ago")>>)>>),
       \* distance / size with units
       Cat(<<Grouped, Decimals, MaybeGap,
             Alt(<<Cat(<<Lit("light"), Opt(Some({"-", " "}, 1, 1)), Plural("year")>>),
                   Plural("mile"), Plural("kilometer"), Lit("km"), Plural("meter"), Lit("feet")>>),
             Gap,
             Alt(<<Lit("away"), Lit("from"), Lit("across"), Lit("wide"), Lit("long")>>)>>),
       \* temperature
       Cat(<<Grouped, Decimals, MaybeGap, Alt(<<Plural("degree"), Some({"U+00B0"}, 1, 1)>>),
             MaybeGap,
             Alt(<<Lit("celsius"), Lit("fahrenheit"), Lit("c"), Lit("f")>>)>>),
       \* species / discoveries count
       Cat(<<Opt(Alt(<<Cat(<<Lit("more than"), Gap>>), Cat(<<Lit("over"), Gap>>),
                       Cat(<<Lit("about"), Gap>>)>>)),
             Grouped, Gap, Opt(Cat(<<Lit("new"), Gap>>)),
             Alt(<<Lit("species"), Lit("discoveries"), Plural("star"), Plural("planet"),
                   Lit("galaxies")>>)>>) >>

MaxStatLen == 60

\* line 687: re.search(pattern, text, re.IGNORECASE), the match at the leftmost
\* position where the pattern matches; << >> when there is none
Search(pattern, text) ==
    LET starts == {i \in 1..Len(text) : Ends(pattern, text, i) # << >>}
    IN  IF starts = {} THEN << >>
        ELSE <<SubSeq(text, Min(starts), Ends(pattern, text, Min(starts))[1] - 1)>>

\* lines 688-693: the match stripped, its whitespace collapsed, if that is
\* shorter than 60 characters
Concise(match) ==
    IF match = << >> THEN << >>
    ELSE LET full_match == CollapseWhitespace(Strip(match[1]))
         IN  IF Len(full_match) < MaxStatLen THEN <<full_match>> ELSE << >>

\* line 696: re.split(r'[.!?]', text), from position pos on
RECURSIVE SplitAtMarks(_, _)
SplitAtMarks(t, pos) ==
    LET marks == {i \in pos..Len(t) : t[i] \in SentenceEndSet}
    IN  IF marks = {} THEN <<SubSeq(t, pos, Len(t))>>
        ELSE <<SubSeq(t, pos, Min(marks) - 1)>> \o SplitAtMarks(t, Min(marks) + 1)

\* line 699: re.search(r'\b\d{2,}(?:,\d{3})*\b', sent) or re.search(r'\d+\s*%', sent)
HasNotableNumber(sent) ==
    \/ \E i \in 1..Len(sent) :
          /\ sent[i] \in DigitSet
          /\ WordBoundary(sent, i)
          /\ RunEndIn(sent, i, DigitSet) >= i + 1
          /\ WordBoundary(sent, RunEndIn(sent, i, DigitSet) + 1)
    \/ \E i \in 1..Len(sent) :
          /\ sent[i] \in DigitSet
          /\ LET j == RunEndIn(sent, RunEndIn(sent, i, DigitSet) + 1, WhitespaceSet) + 1
             IN  j <= Len(sent) /\ sent[j] = "%"

MinFallbackStatLen == 20

MaxFallbackStatLen == 80

\* lines 695-702
FallbackStatistic(text) ==
    LET parts == SplitAtMarks(text, 1)
        hits == {k \in DOMAIN parts :
                    /\ HasNotableNumber(parts[k])
                    /\ Len(Strip(parts[k])) > MinFallbackStatLen
                    /\ Len(Strip(parts[k])) < MaxFallbackStatLen}
    IN  IF hits = {} THEN << >> ELSE <<Strip(parts[Min(hits)])>>

\* the patterns tried from the last to the first, then the fallback
RECURSIVE LastStatistic(_, _)
LastStatistic(text, n) ==
    IF n > Len(stat_patterns) THEN FallbackStatistic(text)
    ELSE LET found == Concise(Search(stat_patterns[Len(stat_patterns) + 1 - n], text))
         IN  IF found # << >> THEN found ELSE LastStatistic(text, n + 1)

\* lines 686-702: the patterns from the n-th on, then the fallback
RECURSIVE FirstStatistic(_, _)
FirstStatistic(text, n) ==
    IF n > Len(stat_patterns) THEN FallbackStatistic(text)
    ELSE LET found == Concise(Search(stat_patterns[n], text))
         IN  IF found # << >> THEN found ELSE FirstStatistic(text, n + 1)

\* lines 661-704 with the title left out of the text
extract_key_statistic_of_content(content, title) ==
    IF content = << >> THEN << >>
    ELSE IF \A i \in 1..Len(content) : content[i] \notin DigitSet THEN << >>
    ELSE FirstStatistic(content, 1)

\* lines 661-704; every pattern needs a digit, so a text without one gives None
extract_key_statistic(content, title) ==
    IF content = << >> THEN << >>
    ELSE LET text == content \o Space \o title
         IN  IF \A i \in 1..Len(text) : text[i] \notin DigitSet THEN << >>
             ELSE FirstStatistic(text, 1)

WordsPerMinute == 200

\* line 713: len(content.split()), the number of places where a word begins
WordCount(content) ==
    Cardinality({i \in 1..Len(content) :
                    ~IsSpace(content[i]) /\ (i = 1 \/ IsSpace(content[i - 1]))})

\* lines 707-716 with a round() that rounds a half up
calculate_reading_time_half_up(content) ==
    IF content = << >> THEN 1
    ELSE LET word_count == WordCount(content)
             rounded == (2 * word_count + WordsPerMinute) \div (2 * WordsPerMinute)
         IN  IF rounded < 1 THEN 1 ELSE rounded

\* lines 707-716; round() rounds a half to the even neighbour
calculate_reading_time(content) ==
    IF content = << >> THEN 1
    ELSE LET word_count == WordCount(content)
             q == word_count \div WordsPerMinute
             r == word_count % WordsPerMinute
             rounded == IF 2 * r < WordsPerMinute THEN q
                        ELSE IF 2 * r > WordsPerMinute THEN q + 1
                        ELSE IF q % 2 = 0 THEN q ELSE q + 1
         IN  IF rounded < 1 THEN 1 ELSE rounded

(***************************************************************************)
(* ArticleFetcher: get_base_url, get_source_name, fetch_domain_articles    *)
(***************************************************************************)
\* lines 1045-1088: the if-chain, in order
BaseUrls ==
    << <<"sciencedaily.com", "https://www.sciencedaily.com">>,
       <<"phys.org", "https://phys.org">>,
       <<"eurekalert.org", "https://www.eurekalert.org">>,
       <<"space.com", "https://www.space.com">>,
       <<"livescience.com", "https://www.livescience.com">>,
       <<"nasa.gov", "https://www.nasa.gov">>,
       <<"noaa.gov", "https://www.noaa.gov">>,
       <<"quantamagazine.org", "https://www.quantamagazine.org">>,
       <<"theconversation.com", "https://theconversation.com">>,
       <<"arstechnica.com", "https://arstechnica.com">>,
       <<"inverse.com", "https://www.inverse.com">>,
       <<"news.mit.edu", "https://news.mit.edu">>,
       <<"cosmosmagazine.com", "https://cosmosmagazine.com">>,
       <<"iflscience.com", "https://www.iflscience.com">>,
       <<"mongabay.com", "https://news.mongabay.com">>,
       <<"bbc.com", "https://www.bbc.com">>,
       <<"zmescience.com", "https://www.zmescience.com">>,
       <<"smithsonianmag.com", "https://www.smithsonianmag.com">>,
       <<"nationalzoo.si.edu", "https://nationalzoo.si.edu">>,
       <<"nationalgeographic.com", "https://www.nationalgeographic.com">>,
       <<"insideclimatenews.org", "https://insideclimatenews.org">> >>

\* lines 1092-1135: the if-chain, in order
SourceNames ==
    << <<"quantamagazine", "Quanta">>,
       <<"theconversation", "The Conversation">>,
       <<"arstechnica", "Ars Technica">>,
       <<"inverse.com", "Inverse">>,
       <<"news.mit.edu", "MIT News">>,
       <<"cosmosmagazine", "Cosmos">>,
       <<"iflscience", "IFLScience">>,
       <<"mongabay", "Mongabay">>,
       <<"bbc.com", "BBC">>,
       <<"zmescience", "ZME Science">>,
       <<"smithsonianmag", "Smithsonian">>,
       <<"nationalzoo.si.edu", "Smithsonian Zoo">>,
       <<"nationalgeographic", "Nat Geo">>,
       <<"insideclimatenews", "Inside Climate News">>,
       <<"sciencedaily", "ScienceDaily">>,
       <<"phys.org", "Phys.org">>,
       <<"eurekalert", "EurekAlert">>,
       <<"space.com", "Space.com">>,
       <<"livescience", "Live Science">>,
       <<"nasa.gov", "NASA">>,
       <<"noaa.gov", "NOAA">> >>

\* the result of the first branch of an if-chain whose needle occurs in url
FirstBranch(table, url, default) ==
    LET hits == {k \in DOMAIN table : Contains(url, Chars(table[k][1]))}
    IN  IF hits = {} THEN default ELSE table[Min(hits)][2]

\* lines 1043-1088; the result is a text
get_base_url(url) == Chars(FirstBranch(BaseUrls, url, ""))

\* lines 1090-1135
get_source_name(url) == FirstBranch(SourceNames, url, "Science News")

skip_words ==
    << "subscribe", "newsletter", "sign in", "menu", "search",
       "advertisement", "about us", "contact", "privacy" >>

wildlife_terms ==
    << "animal", "species", "wildlife", "mammal", "bird", "fish", "predator",
       "prey", "endangered", "zoo", "wolf", "bear", "whale", "dolphin",
       "shark", "elephant" >>

MinHeadlineLen == 15

MaxSummaryLen == 400

MaxPerSource == 2

EnoughArticles == 8

EnoughSources == 2

MaxElements == 15

\* lines 1215-1226: the element is not a new article link
NotAnArticle(headline, href, seen_titles) ==
    \/ headline = << >>
    \/ Len(headline) < MinHeadlineLen
    \/ headline \in seen_titles
    \/ \E k \in DOMAIN skip_words : Contains(Lower(headline), Chars(skip_words[k]))
    \/ /\ href # << >>
       /\ \/ Contains(href, Chars("/category/"))
          \/ Contains(href, Chars("/tag/"))
          \/ Contains(href, Chars("/topics/"))

\* lines 1229-1232
FullUrl(href, url) ==
    IF href # << >> /\ ~MatchAt(href, 1, Chars("http"))
    THEN LET base == get_base_url(url)
         IN  IF base = << >> THEN href
             ELSE IF href[1] = "/" THEN base \o href
             ELSE base \o Chars("/") \o href
    ELSE href

\* a mutant of DomainMatches: an article without a detected topic is accepted too
DomainMatchesOrNone(domain, headline, summary) ==
    \/ classify_domain(headline, summary) = None
    \/ classify_domain(headline, summary) = domain

\* a mutant of DomainMatches: every detected topic is accepted
DomainMatchesAny(domain, headline, summary) == TRUE

\* lines 1251-1265: the detected topic is the requested one, or the request is
\* for Wildlife, the detected topic is Biology and a wildlife term occurs
DomainMatches(domain, headline, summary) ==
    LET detected_domain == classify_domain(headline, summary)
        text_lower == Lower(headline \o Space \o summary)
    IN  \/ detected_domain = domain
        \/ /\ domain = "Wildlife"
           /\ detected_domain = "Biology"
           /\ \E k \in DOMAIN wildlife_terms : Contains(text_lower, Chars(wildlife_terms[k]))

\* lines 1238-1247: elem.summary is << >> when the parent has no summary
\* element, else <<text>>
SummaryOf(elem) ==
    IF elem.summary = << >> \/ elem.summary[1] = << >> THEN elem.headline
    ELSE elem.summary[1]

\* lines 1211-1276 for one element: no record, or the one record appended
ElementRecord(domain, url, elem, seen_titles) ==
    LET headline == elem.headline
        href == FullUrl(elem.href, url)
        summary == SummaryOf(elem)
    IN  IF NotAnArticle(headline, elem.href, seen_titles) THEN << >>
        ELSE IF is_paywalled_url(href) THEN << >>
        ELSE IF ~DomainMatches(domain, headline, summary) THEN << >>
        ELSE << [title |-> headline,
                 summary |-> Take(summary, MaxSummaryLen),
                 url |-> IF href # << >> THEN href ELSE url,
                 source |-> get_source_name(url),
                 domain |-> domain] >>

\* articles_per_source.get(source_name, 0)
CountOf(per_source, source_name) ==
    IF source_name \in DOMAIN per_source THEN per_source[source_name] ELSE 0

\* lines 1149 and 1204
HaveEnough(articles, per_source) ==
    Len(articles) >= EnoughArticles /\ Cardinality(DOMAIN per_source) >= EnoughSources

(***************************************************************************)
(* enrich_with_explanations for one article                                *)
(***************************************************************************)
\* a mutant of SkipPaywalled: the guard of line 1303 never fires
SkipPaywalledOff(article) == FALSE

\* line 1303
SkipPaywalled(article) == is_paywalled_url(article.url)

\* lines 1309-1310 and 545: a request is made for the article's page
Requests(article) ==
    ~SkipPaywalled(article) /\ article.url # << >> /\ ~is_paywalled_url(article.url)

\* lines 1307-1313
ArticleData(article, response) ==
    IF article.url # << >> THEN fetch_article_content(article.url, response)
    ELSE NoContent

\* line 1316
CouldNotAccess(article, article_data) ==
    article_data.content = << >> /\ article.summary = article.title

\* a mutant of Enriched: the summary is replaced by the start of the page text
\* when there is one
EnrichedSummaryFromPage(article, article_data) ==
    IF CouldNotAccess(article, article_data) THEN << >>
    ELSE << [title |-> article.title,
             summary |-> IF article_data.content # << >>
                         THEN Take(article_data.content, MaxSummaryLen)
                         ELSE article.summary,
             url |-> article.url,
             source |-> article.source,
             domain |-> article.domain,
             explanation |-> generate_simple_explanation(article.title, article.summary,
                                                         article_data.content),
             image |-> article_data.image,
             key_stat |-> extract_key_statistic(article_data.content, article.title),
             read_time |-> calculate_reading_time(article_data.content)] >>

\* lines 1315-1337: the record appended for an article whose page gave
\* article_data, or none
Enriched(article, article_data) ==
    IF CouldNotAccess(article, article_data) THEN << >>
    ELSE << [title |-> article.title,
             summary |-> article.summary,
             url |-> article.url,
             source |-> article.source,
             domain |-> article.domain,
             explanation |-> generate_simple_explanation(article.title, article.summary,
                                                         article_data.content),
             image |-> article_data.image,
             key_stat |-> extract_key_statistic(article_data.content, article.title),
             read_time |-> calculate_reading_time(article_data.content)] >>

\* lines 1300-1337 for one article: no record, or the one record appended
EnrichOne(article, response) ==
    IF SkipPaywalled(article) THEN << >>
    ELSE Enriched(article, ArticleData(article, response))

(***************************************************************************)
(* Specification SpecClassify: classify_domain applied to bounded inputs   *)
(***************************************************************************)
\* words a headline is made of: keywords of several topics, overlapping
\* keywords ("plants" holds "plant" and "ant", "Fossil fuel" holds "fossil"
\* and "fossil fuel"), and words that hit no topic
HeadlineWords == << "Star", "plants", "Fossil fuel", "Polar bear", "Arctic", "budget" >>

SummaryTexts == << "", "...", "Mars", "Cell news" >>

MaxHeadlineWords == 2

RECURSIVE JoinWords(_)
JoinWords(ws) ==
    IF ws = << >> THEN << >>
    ELSE IF Len(ws) = 1 THEN Chars(ws[1])
    ELSE Chars(ws[1]) \o Space \o JoinWords(Tail(ws))

RECURSIVE SeqsUpTo(_, _)
SeqsUpTo(S, n) ==
    IF n = 0 THEN {<< >>}
    ELSE LET shorter == SeqsUpTo(S, n - 1)
         IN  shorter \cup {Append(q, x) : q \in shorter, x \in S}

Headlines == {JoinWords(ws) : ws \in SeqsUpTo(Range(HeadlineWords), MaxHeadlineWords)}

\* generate_simple_explanation is not running
DistillIdle ==
    /\ gse_title = << >>
    /\ gse_summary = << >>
    /\ gse_full_content = << >>
    /\ gse_all_text = << >>
    /\ gse_sentences = << >>
    /\ gse_scored = << >>
    /\ gse_idx = 0
    /\ gse_bullet_points = << >>
    /\ gse_used_words = << >>
    /\ gse_html = << >>
    /\ gse_pc = "idle"

\* classify_domain is not running
ClassifyIdle ==
    /\ cl_title = << >>
    /\ cl_summary = << >>
    /\ cl_result = Pending
    /\ cl_pc = "idle"

PipeIdle ==
    /\ ud_domain = None
    /\ ud_urls = << >>
    /\ ud_url_idx = 1
    /\ ud_elements = << >>
    /\ ud_elem_idx = 1
    /\ ud_articles = << >>
    /\ ud_seen_titles = {}
    /\ ud_per_source = << >>
    /\ ud_input = << >>
    /\ ud_enrich_idx = 1
    /\ ud_enriched = << >>
    /\ ud_pages = << >>
    /\ ud_kept = << >>
    /\ ud_pc = "idle"

\* no single function call is being made
CallIdle ==
    /\ fn_name = None
    /\ fn_args = << >>
    /\ fn_result = Pending
    /\ fn_pc = "idle"

ClassifyInit ==
    /\ cl_title \in Headlines
    /\ cl_summary \in {Chars(SummaryTexts[i]) : i \in DOMAIN SummaryTexts}
    /\ cl_result = Pending
    /\ cl_pc = "call"
    /\ DistillIdle
    /\ PipeIdle
    /\ CallIdle

Classify ==
    /\ cl_pc = "call"
    /\ cl_result' = classify_domain(cl_title, cl_summary)
    /\ cl_pc' = "done"
    /\ UNCHANGED <<cl_title, cl_summary, distillVars, pipeVars, callVars>>

ClassifyNext == Classify

SpecClassify == ClassifyInit /\ [][ClassifyNext]_vars

(***************************************************************************)
(* Specification Spec: generate_simple_explanation, one stage per step,    *)
(* on bounded articles                                                     *)
(***************************************************************************)
\* sentences an article body is made of
SentencePool ==
    << "Scientists discovered 12 new species of frogs living high in remote mountain forests.",
       "Scientists discovered 12 new species of frogs living deep in remote mountain caves.",
       "Most of these animals sleep during hot afternoons and hunt only after sunset.",
       "Huge dust storms were tracked by NASA (JPL) for over 200 days with two small orbiters.",
       "The lead pilot said \"this is the most exciting result of my whole career\" today.",
       "The probe was launched on March 3, and it got to orbit after 200 days.",
       "Engineers utilize approximately 40sensors to track how quickly each river rises." >>

\* sentences that make a body text of their own: one with direct speech in
\* curly quotes ({ and } stand for U+201C and U+201D), one in which a dated
\* paper runs into the next word
LoneSentences ==
    << "Pilots call their new glider {a quiet wonder with long wings} and hope many young people will fly it next summer.",
       "Huge dust storms were seen in a 2019 paperypothesis for over 200 days with two small orbiters." >>

TitleTexts ==
    << "Scientists discovered new species of frogs in remote mountain forests",
       "Scientists track dust storms" >>

SummaryPool ==
    << "",
       "new species of frogs discovered in remote mountain forests.",
       "Researchers found that warmer oceans could change where many fish live and feed." >>

MaxSents == 2

\* the strictly increasing index sequences of at most n pool sentences
RECURSIVE Picks(_, _)
Picks(S, n) ==
    IF n = 0 THEN {<< >>}
    ELSE LET shorter == Picks(S, n - 1)
         IN  shorter \cup UNION {{Append(q, x) : x \in {y \in S : \A k \in 1..Len(q) : q[k] < y}} :
                                    q \in shorter}

Typeset(t) ==
    [i \in 1..Len(t) |-> IF t[i] = "{" THEN "U+201C" ELSE IF t[i] = "}" THEN "U+201D" ELSE t[i]]

\* the body text: the picked sentences, in order, joined by single spaces, or
\* one of the lone sentences
Documents ==
    {JoinWords([k \in DOMAIN q |-> SentencePool[q[k]]]) : q \in Picks(DOMAIN SentencePool, MaxSents)}
        \cup {Typeset(Chars(LoneSentences[k])) : k \in DOMAIN LoneSentences}

Init ==
    /\ gse_title \in {Chars(TitleTexts[i]) : i \in DOMAIN TitleTexts}
    /\ gse_summary \in {Chars(SummaryPool[i]) : i \in DOMAIN SummaryPool}
    /\ gse_full_content \in Documents
    /\ gse_all_text = << >>
    /\ gse_sentences = << >>
    /\ gse_scored = << >>
    /\ gse_idx = 0
    /\ gse_bullet_points = << >>
    /\ gse_used_words = << >>
    /\ gse_html = << >>
    /\ gse_pc = "assemble"
    /\ ClassifyIdle
    /\ PipeIdle
    /\ CallIdle

\* lines 794-798
Assemble ==
    /\ gse_pc = "assemble"
    /\ gse_all_text' = simplify_text(AssembleText(gse_summary, gse_full_content))
    /\ gse_pc' = "split"
    /\ UNCHANGED <<gseArgs, gse_sentences, gse_scored, gse_idx,
                   gse_bullet_points, gse_used_words, gse_html, classifyVars, pipeVars, callVars>>

\* lines 800-805
Split ==
    /\ gse_pc = "split"
    /\ gse_sentences' = Segment(gse_all_text)
    /\ gse_pc' = "filter"
    /\ UNCHANGED <<gseArgs, gse_all_text, gse_scored, gse_idx,
                   gse_bullet_points, gse_used_words, gse_html, classifyVars, pipeVars, callVars>>

\* lines 807-813
TitleFilter ==
    /\ gse_pc = "filter"
    /\ gse_sentences' = FilterTitle(gse_sentences, simplify_text(gse_title))
    /\ gse_pc' = "clean"
    /\ UNCHANGED <<gseArgs, gse_all_text, gse_scored, gse_idx,
                   gse_bullet_points, gse_used_words, gse_html, classifyVars, pipeVars, callVars>>

\* lines 815-966
Clean ==
    /\ gse_pc = "clean"
    /\ gse_sentences' = CleanSentences(gse_sentences)
    /\ gse_pc' = "score"
    /\ UNCHANGED <<gseArgs, gse_all_text, gse_scored, gse_idx,
                   gse_bullet_points, gse_used_words, gse_html, classifyVars, pipeVars, callVars>>

\* lines 968-998
ScoreSort ==
    /\ gse_pc = "score"
    /\ gse_scored' = SortScored(ScoreAll(gse_sentences))
    /\ gse_idx' = 1
    /\ gse_pc' = "select"
    /\ UNCHANGED <<gseArgs, gse_all_text, gse_sentences,
                   gse_bullet_points, gse_used_words, gse_html, classifyVars, pipeVars, callVars>>

\* lines 1000-1014: one iteration of the selection loop
SelectStep ==
    /\ gse_pc = "select"
    /\ gse_idx <= Len(gse_scored)
    /\ LET st == SelectOne(gse_bullet_points, gse_used_words, gse_scored[gse_idx])
       IN  /\ gse_bullet_points' = st.bullet_points
           /\ gse_used_words' = st.used_words
           /\ IF Len(st.bullet_points) >= MaxBullets
              THEN gse_pc' = "backfill" /\ gse_idx' = gse_idx
              ELSE gse_pc' = "select" /\ gse_idx' = gse_idx + 1
    /\ UNCHANGED <<gseArgs, gse_all_text, gse_sentences, gse_scored,
                   gse_html, classifyVars, pipeVars, callVars>>

\* line 1000: the selection loop runs out of entries
SelectEnd ==
    /\ gse_pc = "select"
    /\ gse_idx > Len(gse_scored)
    /\ gse_pc' = "backfill"
    /\ UNCHANGED <<gseArgs, gse_all_text, gse_sentences, gse_scored, gse_idx,
                   gse_bullet_points, gse_used_words, gse_html, classifyVars, pipeVars, callVars>>

\* lines 1016-1022
BackfillStep ==
    /\ gse_pc = "backfill"
    /\ gse_bullet_points' = Backfill(gse_bullet_points, gse_sentences)
    /\ gse_pc' = "fallback"
    /\ UNCHANGED <<gseArgs, gse_all_text, gse_sentences, gse_scored, gse_idx,
                   gse_used_words, gse_html, classifyVars, pipeVars, callVars>>

\* lines 1024-1030
FallbackStep ==
    /\ gse_pc = "fallback"
    /\ gse_bullet_points' = FinalFallback(gse_bullet_points, gse_summary)
    /\ gse_pc' = "render"
    /\ UNCHANGED <<gseArgs, gse_all_text, gse_sentences, gse_scored, gse_idx,
                   gse_used_words, gse_html, classifyVars, pipeVars, callVars>>

\* lines 1032-1040
RenderStep ==
    /\ gse_pc = "render"
    /\ gse_html' = Render(gse_bullet_points)
    /\ gse_pc' = "done"
    /\ UNCHANGED <<gseArgs, gse_all_text, gse_sentences, gse_scored, gse_idx,
                   gse_bullet_points, gse_used_words, classifyVars, pipeVars, callVars>>

Next ==
    \/ Assemble
    \/ Split
    \/ TitleFilter
    \/ Clean
    \/ ScoreSort
    \/ SelectStep
    \/ SelectEnd
    \/ BackfillStep
    \/ FallbackStep
    \/ RenderStep

Spec == Init /\ [][Next]_vars

(***************************************************************************)
(* Specification SpecSelect: generate_simple_explanation on articles whose *)
(* sentences all survive cleaning unchanged, so that the candidate list    *)
(* holds ties, near-duplicates, repeated sentences and a run-on sentence   *)
(***************************************************************************)
\* 301 characters
RunOn ==
    "Scientists discovered that rivers and lakes and ponds and streams and marshes and swamps and creeks and canals and coves and fjords and lagoons and deltas and springs and wells and pools and brooks and channels and inlets and gulfs and straits and seas all hold much more plastic than anyone expected."

\* the first and the last sentence are the same text
CandidatePool ==
    << "Small fish found in cold lakes grow slowly when food found nearby runs out.",
       "Researchers watched a mayor read good news about 3 bridges in our old town.",
       "Most of these animals sleep during hot afternoons and hunt only after sunset.",
       "Several divers measured every quiet bay along this rocky coast last winter.",
       "Small fish found in cold lakes grow quickly when food found nearby runs out.",
       "Several divers measured every quiet cave but nobody charted those.",
       RunOn,
       "Small fish found in cold lakes grow slowly when food found nearby runs out." >>

SelectTitle == "Ocean robots"

\* summaries too short to become candidates: of 54 characters (42 once
\* simplified), of 50 and of 51
ShortSummaries ==
    << "Ships utilize approximately nine hundred tons of fuel.",
       "Ships burn nearly nine hundred tons of fuel a day.",
       "Ships burn nearly nine hundred tons of fuel a week." >>

MaxCandidates == 4

CandidateText(q) == JoinWords([k \in DOMAIN q |-> CandidatePool[q[k]]])

SelectInit ==
    /\ gse_title = Chars(SelectTitle)
    /\ \/ /\ gse_summary = << >>
          /\ gse_full_content \in {CandidateText(q) : q \in Picks(DOMAIN CandidatePool, MaxCandidates)}
       \/ /\ gse_summary \in {Chars(ShortSummaries[i]) : i \in DOMAIN ShortSummaries}
          /\ gse_full_content \in {CandidateText(q) : q \in Picks(DOMAIN CandidatePool, 1)}
    /\ gse_all_text = << >>
    /\ gse_sentences = << >>
    /\ gse_scored = << >>
    /\ gse_idx = 0
    /\ gse_bullet_points = << >>
    /\ gse_used_words = << >>
    /\ gse_html = << >>
    /\ gse_pc = "assemble"
    /\ ClassifyIdle
    /\ PipeIdle
    /\ CallIdle

SpecSelect == SelectInit /\ [][Next]_vars

(***************************************************************************)
(* Specification SpecPipeline: one pass of the loop of update_digest for a *)
(* topic: fetch_domain_articles, enrich_with_explanations on the first     *)
(* three records, and the record kept for the card.  The listing pages and *)
(* the article pages are what the network returns, chosen from small       *)
(* pools.                                                                  *)
(***************************************************************************)
\* the links a listing page can show: headline is elem.get_text(strip=True),
\* href is elem.get("href", ""), summary is << >> when the parent has no
\* summary element and <<text>> when it has one
ElementPool ==
    << [headline |-> Chars("Rare whale seen near the coast"),
        href |-> Chars("/animals/rare-whale"),
        summary |-> << >>],
       [headline |-> Chars("Zoo vets study how cells repair DNA"),
        href |-> Chars("https://www.livescience.com/health/zoo-cells"),
        summary |-> <<Chars("Keepers took blood samples for a lab.")>>],
       [headline |-> Chars("Arctic sea ice keeps shrinking"),
        href |-> Chars("https://www.nature.com/articles/ice"),
        summary |-> << >>],
       [headline |-> Chars("Glacier floods follow the heat wave"),
        href |-> << >>,
        summary |-> <<Chars("Meltwater lakes burst after days of record heat.")>>],
       [headline |-> Chars("All wildlife and animal stories"),
        href |-> Chars("/topics/animals"),
        summary |-> << >>],
       [headline |-> Chars("City council passes new budget"),
        href |-> Chars("/news/city-budget"),
        summary |-> << >>] >>

\* the most links on a listing page
MaxElems == 2

\* the listing pages: every sequence of at most MaxElems links.  A page that
\* could not be fetched (line 1283) gives no links, as the empty page does.
Listings == SeqsUpTo(Range(ElementPool), MaxElems)

\* listing URLs for a call with several urls: two pages of one site and a
\* page of another (lines 1143-1144: the source name is that of the url)
FetchUrls ==
    << Chars("https://www.livescience.com/animals/page/2"),
       Chars("https://www.livescience.com/animals/page/3"),
       Chars("https://phys.org/biology-news/") >>

\* the links those pages can show: three Wildlife headlines, so that a site
\* has more articles to offer than the per-source limit takes
LinkPool ==
    << [headline |-> Chars("Bears wake up early"),
        href |-> Chars("/animals/bears"),
        summary |-> << >>],
       [headline |-> Chars("Sharks gather near the reef"),
        href |-> << >>,
        summary |-> << >>],
       [headline |-> Chars("Dolphins name each other"),
        href |-> Chars("https://phys.org/news/dolphins.html"),
        summary |-> <<Chars("Each calf learns a whistle.")>>] >>

\* line 1202: soup.select(...) on the page fetched for url
ListingPages(url) ==
    IF url \in Range(FetchUrls) THEN SeqsUpTo(Range(LinkPool), MaxElems)
    ELSE Listings

\* the calls fetch_domain_articles(domain, urls): the two entries of
\* DOMAIN_URLS, and a call whose listing URL is on the deny-list
Calls ==
    { <<"Wildlife", <<Chars("https://www.livescience.com/animals")>> >>,
      <<"Climate", <<Chars("https://insideclimatenews.org/")>> >>,
      <<"Climate", <<Chars("https://www.nature.com/climate")>> >> }

\* the article request failed (line 601)
ErrorResponse ==
    [status |-> "error", text |-> << >>, classes |-> {}, ids |-> {},
     data_paywall |-> FALSE, paragraphs |-> << >>, image |-> << >>]

\* an article page that can be read
OpenResponse ==
    [status |-> "ok",
     text |-> Chars("Scientists discovered 12 new species of frogs living high in remote mountain forests."),
     classes |-> {Chars("article-body")}, ids |-> {Chars("main")},
     data_paywall |-> FALSE,
     paragraphs |-> <<Chars("Scientists discovered 12 new species of frogs living high in remote mountain forests.")>>,
     image |-> <<Chars("https://cdn.example.org/frog.jpg")>>]

\* an article page behind a paywall
PaywallResponse ==
    [status |-> "ok",
     text |-> Chars("Subscribe to read the full story. Scientists discovered 12 new species of frogs."),
     classes |-> {Chars("paywall-banner")}, ids |-> {},
     data_paywall |-> FALSE,
     paragraphs |-> <<Chars("Subscribe to read the full story.")>>,
     image |-> << >>]

Responses == {ErrorResponse, OpenResponse, PaywallResponse}

MaxEnriched == 3

MaxKept == 1

PipeInit ==
    /\ \E call \in Calls : ud_domain = call[1] /\ ud_urls = call[2]
    /\ ud_url_idx = 1
    /\ ud_elements = << >>
    /\ ud_elem_idx = 1
    /\ ud_articles = << >>
    /\ ud_seen_titles = {}
    /\ ud_per_source = << >>
    /\ ud_input = << >>
    /\ ud_enrich_idx = 1
    /\ ud_enriched = << >>
    /\ ud_pages = << >>
    /\ ud_kept = << >>
    /\ ud_pc = "urls"
    /\ ClassifyIdle
    /\ DistillIdle
    /\ CallIdle

\* lines 1143-1202: the head of the loop over urls and the request for the
\* listing page
StartListing ==
    /\ ud_pc = "urls"
    /\ ud_url_idx <= Len(ud_urls)
    /\ IF CountOf(ud_per_source, get_source_name(ud_urls[ud_url_idx])) >= MaxPerSource
       THEN /\ ud_url_idx' = ud_url_idx + 1
            /\ UNCHANGED <<ud_elements, ud_elem_idx, ud_pc>>
       ELSE IF HaveEnough(ud_articles, ud_per_source)
       THEN /\ ud_url_idx' = Len(ud_urls) + 1
            /\ UNCHANGED <<ud_elements, ud_elem_idx, ud_pc>>
       ELSE /\ \E article_elements \in ListingPages(ud_urls[ud_url_idx]) :
                  ud_elements' = Take(article_elements, MaxElements)
            /\ ud_elem_idx' = 1
            /\ ud_pc' = "elems"
            /\ UNCHANGED ud_url_idx
    /\ UNCHANGED <<ud_domain, ud_urls, ud_articles, ud_seen_titles, ud_per_source, ud_input,
                   ud_enrich_idx, ud_enriched, ud_pages, ud_kept, classifyVars, distillVars, callVars>>

\* a mutant of MoreElements: the per-source limit of line 1207 is not tested
MoreElementsNoLimit ==
    /\ ud_elem_idx <= Len(ud_elements)
    /\ ~HaveEnough(ud_articles, ud_per_source)

\* lines 1202-1208: the loop over the links goes on
MoreElements ==
    /\ ud_elem_idx <= Len(ud_elements)
    /\ ~HaveEnough(ud_articles, ud_per_source)
    /\ CountOf(ud_per_source, get_source_name(ud_urls[ud_url_idx])) < MaxPerSource

\* lines 1209-1281: one link of the listing page
ElementStep ==
    /\ ud_pc = "elems"
    /\ MoreElements
    /\ LET url == ud_urls[ud_url_idx]
           elem == ud_elements[ud_elem_idx]
           record == ElementRecord(ud_domain, url, elem, ud_seen_titles)
           article_source == get_source_name(url)
       IN  /\ ud_articles' = ud_articles \o record
           /\ ud_seen_titles' = IF record = << >> THEN ud_seen_titles
                                ELSE ud_seen_titles \cup {elem.headline}
           /\ ud_per_source' =
                 IF record = << >> THEN ud_per_source
                 ELSE [name \in DOMAIN ud_per_source \cup {article_source} |->
                          IF name = article_source
                          THEN CountOf(ud_per_source, article_source) + 1
                          ELSE ud_per_source[name]]
    /\ ud_elem_idx' = ud_elem_idx + 1
    /\ UNCHANGED <<ud_domain, ud_urls, ud_url_idx, ud_elements, ud_input, ud_enrich_idx,
                   ud_enriched, ud_pages, ud_kept, ud_pc, classifyVars, distillVars, callVars>>

\* the loop over the links ends (exhausted, or one of the breaks)
PageDone ==
    /\ ud_pc = "elems"
    /\ ~MoreElements
    /\ ud_url_idx' = ud_url_idx + 1
    /\ ud_pc' = "urls"
    /\ UNCHANGED <<ud_domain, ud_urls, ud_elements, ud_elem_idx, ud_articles, ud_seen_titles,
                   ud_per_source, ud_input, ud_enrich_idx, ud_enriched, ud_pages, ud_kept,
                   classifyVars, distillVars, callVars>>

\* line 1292 and lines 2283-2288: fetch_domain_articles returns; update_digest
\* passes the first three records to enrich_with_explanations if there are any
FetchReturn ==
    /\ ud_pc = "urls"
    /\ ud_url_idx > Len(ud_urls)
    /\ IF ud_articles # << >>
       THEN /\ ud_input' = Take(ud_articles, MaxEnriched)
            /\ ud_pc' = "enrich"
       ELSE /\ ud_input' = ud_input
            /\ ud_pc' = "keep"
    /\ UNCHANGED <<ud_domain, ud_urls, ud_url_idx, ud_elements, ud_elem_idx, ud_articles,
                   ud_seen_titles, ud_per_source, ud_enrich_idx, ud_enriched, ud_pages, ud_kept,
                   classifyVars, distillVars, callVars>>

\* lines 1299-1337: one article of enrich_with_explanations; the response is
\* the page the request returns, if a request is made
EnrichStep ==
    /\ ud_pc = "enrich"
    /\ ud_enrich_idx <= Len(ud_input)
    /\ \E response \in IF Requests(ud_input[ud_enrich_idx]) THEN Responses ELSE {ErrorResponse} :
          /\ ud_enriched' = ud_enriched \o EnrichOne(ud_input[ud_enrich_idx], response)
          /\ ud_pages' = Append(ud_pages, IF Requests(ud_input[ud_enrich_idx])
                                          THEN <<response>> ELSE << >>)
    /\ ud_enrich_idx' = ud_enrich_idx + 1
    /\ UNCHANGED <<ud_domain, ud_urls, ud_url_idx, ud_elements, ud_elem_idx, ud_articles,
                   ud_seen_titles, ud_per_source, ud_input, ud_kept, ud_pc,
                   classifyVars, distillVars, callVars>>

\* line 1339 and line 2288: enrich_with_explanations returns into articles
EnrichReturn ==
    /\ ud_pc = "enrich"
    /\ ud_enrich_idx > Len(ud_input)
    /\ ud_articles' = ud_enriched
    /\ ud_pc' = "keep"
    /\ UNCHANGED <<ud_domain, ud_urls, ud_url_idx, ud_elements, ud_elem_idx, ud_seen_titles,
                   ud_per_source, ud_input, ud_enrich_idx, ud_enriched, ud_pages, ud_kept,
                   classifyVars, distillVars, callVars>>

\* line 2291: domains_articles[domain] = articles[:1]
Keep ==
    /\ ud_pc = "keep"
    /\ ud_kept' = Take(ud_articles, MaxKept)
    /\ ud_pc' = "done"
    /\ UNCHANGED <<ud_domain, ud_urls, ud_url_idx, ud_elements, ud_elem_idx, ud_articles,
                   ud_seen_titles, ud_per_source, ud_input, ud_enrich_idx, ud_enriched, ud_pages,
                   classifyVars, distillVars, callVars>>

PipeNext ==
    \/ StartListing
    \/ ElementStep
    \/ PageDone
    \/ FetchReturn
    \/ EnrichStep
    \/ EnrichReturn
    \/ Keep

SpecPipeline == PipeInit /\ [][PipeNext]_vars

(***************************************************************************)
(* Specification SpecFetch: fetch_domain_articles alone, from its first    *)
(* line to its return, on the Wildlife entry of DOMAIN_URLS and on a call  *)
(* with several urls.                                                      *)
(***************************************************************************)
FetchCalls ==
    { <<"Wildlife", <<Chars("https://www.livescience.com/animals")>> >>,
      <<"Wildlife", FetchUrls>>,
      <<"Wildlife", <<FetchUrls[3], FetchUrls[1]>> >> }

FetchInit ==
    /\ \E call \in FetchCalls : ud_domain = call[1] /\ ud_urls = call[2]
    /\ ud_url_idx = 1
    /\ ud_elements = << >>
    /\ ud_elem_idx = 1
    /\ ud_articles = << >>
    /\ ud_seen_titles = {}
    /\ ud_per_source = << >>
    /\ ud_input = << >>
    /\ ud_enrich_idx = 1
    /\ ud_enriched = << >>
    /\ ud_pages = << >>
    /\ ud_kept = << >>
    /\ ud_pc = "urls"
    /\ ClassifyIdle
    /\ DistillIdle
    /\ CallIdle

FetchNext ==
    \/ StartListing
    \/ ElementStep
    \/ PageDone
    \/ FetchReturn

SpecFetch == FetchInit /\ [][FetchNext]_vars

(***************************************************************************)
(* Specification SpecCalls: one call of one function of the program, on    *)
(* arguments drawn from small pools                                        *)
(***************************************************************************)
\* the hosts and the paths the URLs given to is_paywalled_url are made of
UrlHosts == << "www.nature.com", "WWW.Nature.COM", "www.livescience.com", "phys.org" >>

UrlPaths == << "", "/news/2026/frogs", "/news/nature.com-study", "/search?q=wsj.com" >>

Urls ==
    {Chars("https://") \o Chars(UrlHosts[h]) \o Chars(UrlPaths[q]) :
        h \in DOMAIN UrlHosts, q \in DOMAIN UrlPaths} \cup {<< >>}

UrlCalls == {<<"is_paywalled_url", <<url>> >> : url \in Urls}

\* pages given to check_for_paywall: the text of the page, the class and id
\* attributes of its elements and whether an element has a data-paywall
\* attribute
PageTexts ==
    << "Frogs were found in the hills.",
       "Subscribe to read the full story.",
       "Start your FREE TRIAL today. Frogs were found in the hills." >>

PageClasses ==
    << {}, {"paywall-banner"}, {"btn subscribe-button"}, {"premium-badge"},
       {"locked-content"}, {"note subscription-required"}, {"article-body", "subscriber-only-tag"} >>

PageIds == << {}, {"paywall-modal"} >>

Pages ==
    {[status |-> "ok", text |-> Chars(PageTexts[t]),
      classes |-> {Chars(c) : c \in PageClasses[k]},
      ids |-> {Chars(i) : i \in PageIds[j]},
      data_paywall |-> d, paragraphs |-> << >>, image |-> << >>] :
        t \in DOMAIN PageTexts, k \in DOMAIN PageClasses, j \in DOMAIN PageIds, d \in BOOLEAN}

PageUrls == {Chars("https://phys.org/news/2026/frogs"), Chars("https://www.wired.com/story/frogs")}

PageCalls == {<<"check_for_paywall", <<page, url>> >> : page \in Pages, url \in PageUrls}

\* texts given to normalize_characters: up to MaxFragments pieces out of
\* mojibake lead and continuation bytes, the no-break space, the euro sign,
\* quotes, the replacement entity, a letter and a line break
Fragments ==
    << <<"U+00E2">>, <<"U+0080">>, <<"U+0099">>, <<"U+00C2">>, <<"U+00A0">>,
       <<"U+20AC">>, <<"'">>, <<"U+201C">>, Apostrophe, <<"a">>, <<"\n">> >>

MaxFragments == 3

RECURSIVE Concat(_)
Concat(parts) == IF parts = << >> THEN << >> ELSE parts[1] \o Concat(Tail(parts))

RawTexts == {Concat(parts) : parts \in SeqsUpTo(Range(Fragments), MaxFragments)}

NormalizeCalls == {<<"normalize_characters", <<text>> >> : text \in RawTexts}

\* texts given to simplify_text
PlainTexts ==
    {<< >>, Chars("  "),
     Chars("Engineers utilize approximately 40sensors to track how quickly each river rises.")}

SimplifyCalls == {<<"simplify_text", <<text>> >> : text \in PlainTexts}

\* headlines and summaries given to classify_domain
ClassifyCalls ==
    {<<"classify_domain", <<Chars(title), Chars(summary)>> >> :
        title \in {"", "Star plants", "City budget"}, summary \in {"", "Mars"}}

\* articles given to generate_simple_explanation
ExplainCalls ==
    {<<"generate_simple_explanation", <<Chars(title), Chars(summary), Chars(full_content)>> >> :
        title \in {"", TitleTexts[2]},
        summary \in {"", SummaryPool[3]},
        full_content \in {"", SentencePool[3]}}

\* contents given to calculate_reading_time: of 100 * h - 1, 100 * h and
\* 100 * h + 1 words for h up to MaxHundreds, and one of spaces only
MaxHundreds == 5

Repeat(piece, n) == [i \in 1..(n * Len(piece)) |-> piece[((i - 1) % Len(piece)) + 1]]

WordCounts == {100 * h + d : h \in 0..MaxHundreds, d \in {-1, 0, 1}} \cap Nat

Contents == {Repeat(Chars("io "), n) : n \in WordCounts} \cup {Chars("   ")}

ReadingCalls == {<<"calculate_reading_time", <<content>> >> : content \in Contents}

\* contents and titles given to extract_key_statistic
StatContents ==
    << "",
       "Scientists discovered 12 new species of frogs.",
       "The frogs sang all night.",
       "Nobody knows what this is about",
       "Divers counted 12 new species of frogs, and 40 percent of them sing at night.",
       "Costs rose 12.345678 percent of the average yearly income of town people. Only 5 percent of frogs sing. Divers found 12 new species.",
       "In 2019 the river rose higher than anyone in the town could remember seeing.",
       "The comet is 3 times faster than Mars and 2 million years old.",
       "The star is 4.2 light-years away and burns at 5,500 degrees Celsius.",
       "They walked for 7 days." >>

StatTitles ==
    << "",
       "Team finds 12 new species of frogs",
       "12 new species found in the hills",
       "Frogs sing at night" >>

StatCalls ==
    {<<"extract_key_statistic", <<Chars(StatContents[c]), Chars(StatTitles[t])>> >> :
        c \in DOMAIN StatContents, t \in DOMAIN StatTitles}

\* is_similar_to_title: the title has five words of 4 or more characters, or
\* none, or a year and a word
SimilarTitles == << "Ocean robots map coral reefs fast", "The big red fox", "Reefs in 2019", "" >>

SimilarSentences ==
    << "OCEAN robots map CORAL beds near those islands.",
       "Ocean robots map coral reefs near those islands.",
       "Robots map reefs.",
       "In 2019 the reefs of 2019 grew.",
       "The big red fox ran off.",
       "" >>

SimilarCalls ==
    {<<"is_similar_to_title", <<Chars(SimilarSentences[s]), Chars(SimilarTitles[t])>> >> :
        s \in DOMAIN SimilarSentences, t \in DOMAIN SimilarTitles}

FunctionCalls ==
    UNION {UrlCalls, PageCalls, NormalizeCalls, SimplifyCalls, ClassifyCalls, ExplainCalls,
           ReadingCalls, StatCalls, SimilarCalls}

CallInit ==
    /\ \E call \in FunctionCalls : fn_name = call[1] /\ fn_args = call[2]
    /\ fn_result = Pending
    /\ fn_pc = "call"
    /\ ClassifyIdle
    /\ DistillIdle
    /\ PipeIdle

\* the function called returns value
Return(name, value) ==
    /\ fn_pc = "call"
    /\ fn_name = name
    /\ fn_result' = value
    /\ fn_pc' = "done"
    /\ UNCHANGED <<fn_name, fn_args, classifyVars, distillVars, pipeVars>>

CallUrlGate == Return("is_paywalled_url", is_paywalled_url(fn_args[1]))

CallPageGate == Return("check_for_paywall", check_for_paywall(fn_args[1], fn_args[2]))

CallNormalize == Return("normalize_characters", normalize_characters(fn_args[1]))

CallSimplify == Return("simplify_text", simplify_text(fn_args[1]))

CallClassify == Return("classify_domain", classify_domain(fn_args[1], fn_args[2]))

CallExplain ==
    Return("generate_simple_explanation",
           generate_simple_explanation(fn_args[1], fn_args[2], fn_args[3]))

CallReadingTime == Return("calculate_reading_time", calculate_reading_time(fn_args[1]))

CallStatistic == Return("extract_key_statistic", extract_key_statistic(fn_args[1], fn_args[2]))

CallSimilar == Return("is_similar_to_title", is_similar_to_title(fn_args[1], fn_args[2]))

CallNext ==
    \/ CallUrlGate
    \/ CallPageGate
    \/ CallNormalize
    \/ CallSimplify
    \/ CallClassify
    \/ CallExplain
    \/ CallReadingTime
    \/ CallStatistic
    \/ CallSimilar

SpecCalls == CallInit /\ [][CallNext]_vars

(***************************************************************************)
(* Properties of generate_simple_explanation (specification Spec)          *)
(***************************************************************************)
Returned == gse_pc = "done"

\* the bullets came from the cleaned candidates (selection or backfill), not
\* from the final fallback
FromCandidates == gse_sentences # << >>

TitleSimplified == simplify_text(gse_title)

C2_Original ==
    Returned => \A k \in DOMAIN gse_html :
                    Len(gse_html[k]) >= 60 /\ gse_html[k][1] \notin LowerSet

\* C2 amended: a bullet taken from the cleaned candidates (salience selection
\* or backfill) has at least 60 characters and no lower-case first letter when
\* it is chosen, that is before the final spacing pass, which may shorten it.
\* The final fallback gives one bullet: the simplified summary, which only
\* has to be longer than 50 characters, or the 58-character placeholder.
C2_ChosenLongAndCapitalized ==
    Returned =>
        IF FromCandidates
        THEN \A k \in DOMAIN gse_bullet_points :
                /\ Len(gse_bullet_points[k]) >= 60
                /\ gse_bullet_points[k][1] \notin LowerSet
        ELSE /\ Len(gse_bullet_points) = 1
             /\ \/ gse_bullet_points[1] = Placeholder
                \/ Len(gse_bullet_points[1]) > 50

\* a chosen bullet of exactly 60 characters that the final spacing pass shortens
C2_Witness ==
    /\ Returned
    /\ FromCandidates
    /\ \E k \in DOMAIN gse_html :
          Len(gse_bullet_points[k]) = 60 /\ Len(gse_html[k]) < 60

\* more than half of the words of each of two sentences are shared
NearDuplicates(a, b) ==
    LET shared == Cardinality(SentWords(a) \cap SentWords(b))
    IN  2 * shared > Cardinality(SentWords(a)) /\ 2 * shared > Cardinality(SentWords(b))

\* C3 as the specification states it: of two sentences sharing over 50% of
\* their words, at most one is in the returned output.
C3_Original ==
    Returned => \A i, j \in DOMAIN gse_html :
                    i < j => ~NearDuplicates(gse_html[i], gse_html[j])

\* C3 amended: among the bullets chosen by salience selection (the ones whose
\* word sets are in used_words), none shares more than 50% of its own words
\* with a bullet selected before it; bullets added by backfill are not
\* compared with anything.
C3_SelectedNotRedundant ==
    /\ Len(gse_used_words) <= Len(gse_bullet_points)
    /\ \A j \in DOMAIN gse_used_words :
          /\ gse_used_words[j] = SentWords(gse_bullet_points[j])
          /\ \A i \in 1..(j - 1) :
                2 * Cardinality(gse_used_words[j] \cap gse_used_words[i])
                    <= Cardinality(gse_used_words[j])

\* two bullets selected and a scoring candidate passed over in between or after
C3_Witness ==
    /\ Returned
    /\ Len(gse_used_words) >= 2
    /\ \E k \in DOMAIN gse_scored :
          /\ gse_scored[k][1] > 0
          /\ gse_scored[k][2] \notin Range(gse_bullet_points)
          /\ Len(gse_bullet_points) < 3

\* C4 as the specification states it: no returned sentence restates the
\* title (is_similar_to_title against the simplified title), whichever path
\* produced it.
C4_Original ==
    Returned => \A k \in DOMAIN gse_html :
                    ~is_similar_to_title(gse_html[k], TitleSimplified)

\* C4 amended: every bullet taken from the cleaned candidates is the cleaned
\* form of a candidate that did not restate the title when the title filter
\* ran, that is before scrubbing; the filter is not applied again to the
\* scrubbed sentence nor to the simplified summary of the final fallback.
C4_ChosenPassedTitleFilter ==
    (Returned /\ FromCandidates) =>
        LET kept == {s \in Range(Segment(gse_all_text)) :
                        ~is_similar_to_title(s, TitleSimplified)}
        IN  Range(gse_bullet_points) \subseteq UNION {Range(CleanOne(s)) : s \in kept}

\* a candidate restating the title scores higher than every returned bullet
\* and is not returned
C4_Witness ==
    /\ Returned
    /\ FromCandidates
    /\ \E s \in Range(Segment(gse_all_text)) :
          /\ is_similar_to_title(s, TitleSimplified)
          /\ \A k \in DOMAIN gse_bullet_points :
                Score(s) > Score(gse_bullet_points[k]) /\ s # gse_bullet_points[k]

\* C5 as the specification states it: every returned sentence went through
\* scrubbing and structural rejection; no path to the bullet list bypasses
\* them.
C5_Original ==
    Returned =>
        Range(gse_bullet_points)
            \subseteq UNION {Range(CleanOne(s)) : s \in Range(Segment(gse_all_text))}

\* C5 amended: every bullet taken by salience selection or backfill is the
\* scrubbed form of a segmented candidate that structural rejection let
\* through; the bullet of the final fallback (simplified summary or
\* placeholder) goes through neither.
C5_ChosenWereScrubbed ==
    (Returned /\ FromCandidates) =>
        \A k \in DOMAIN gse_bullet_points :
            \E s \in Range(Segment(gse_all_text)) :
                LET sent == Scrub(s)
                IN  /\ ~Rejected(sent)
                    /\ gse_bullet_points[k] = EnsureEnding(sent)

\* a bullet that scrubbing changed, next to a candidate that was rejected
C5_Witness ==
    /\ Returned
    /\ FromCandidates
    /\ \E k \in DOMAIN gse_bullet_points :
          gse_bullet_points[k] \notin Range(Segment(gse_all_text))
    /\ \E s \in Range(Segment(gse_all_text)) : CleanOne(s) = << >>

\* the spans of a text that stand between an opening and the next closing
\* quote character
QuotedSpans(t, opening, closing) ==
    {SubSeq(t, pair[1] + 1, pair[2] - 1) :
        pair \in {q \in (1..Len(t)) \X (1..Len(t)) :
                     /\ q[1] + 1 < q[2]
                     /\ t[q[1]] = opening
                     /\ t[q[2]] = closing
                     /\ \A j \in (q[1] + 1)..(q[2] - 1) : t[j] \notin {opening, closing}}}

\* what the raw summary and full text hold in straight or in curly quotes
RawQuoted ==
    LET raw == gse_summary \o Space \o gse_full_content
    IN  QuotedSpans(raw, DoubleQuote, DoubleQuote) \cup QuotedSpans(raw, "U+201C", "U+201D")

\* the candidates have been scrubbed and those rejected are gone
Cleaned == gse_pc \notin {"assemble", "split", "filter", "clean"}

\* C19: quoted spans are stripped for both quote styles: no candidate that
\* survives scrubbing holds a span that stood in straight quotes or in curly
\* quotes in the raw input.
C19_Original ==
    Cleaned => \A span \in RawQuoted :
                  \A k \in DOMAIN gse_sentences : ~Contains(gse_sentences[k], span)

\* the neutral tokens that scrubbing puts in the place of names
NeutralTokens ==
    {Chars("researchers"), Chars("scientists"), Chars("a research institution"),
     Chars("a scientific journal"), Chars("new research")}

\* C20: simplify_text applied to a returned bullet leaves every neutral token
\* of the bullet present and unaltered.
C20_Original ==
    Returned => \A k \in DOMAIN gse_html :
                   \A token \in NeutralTokens :
                       Contains(gse_html[k], token) => Contains(simplify_text(gse_html[k]), token)

(***************************************************************************)
(* Properties of scoring, selection and the fallbacks (specification       *)
(* SpecSelect)                                                             *)
(***************************************************************************)
\* the scoring stage has run: gse_scored is the sorted list of (score, sent)
Scored == gse_pc \notin {"assemble", "split", "filter", "clean", "score"}

\* word occurs in sent at some position, in upper or lower case, as a word of
\* its own or inside a longer word
OccursIn(sent, word) == \E i \in 1..Len(sent) : MatchAtCI(sent, i, word)

\* the words of sent: its maximal runs of letters, lower-cased
LetterWords(sent) ==
    {Lower(SubSeq(sent, i, RunEndIn(sent, i, AlphaSet))) :
        i \in {j \in 1..Len(sent) : sent[j] \in AlphaSet /\ (j = 1 \/ sent[j - 1] \notin AlphaSet)}}

HasDigit(sent) == \E i \in 1..Len(sent) : sent[i] \in DigitSet

\* C21 as stated, an indicator word counting when it is one of the words of
\* the sentence: the score is 2 for each discovery word among the words of the
\* sentence, 1 for each impact word among them and 1 for a digit.
C21_Original ==
    Scored => \A k \in DOMAIN gse_scored :
                  LET sent == gse_scored[k][2]
                  IN  gse_scored[k][1] =
                          2 * Cardinality(Range(DiscoveryChars) \cap LetterWords(sent))
                          + Cardinality(Range(ImpactChars) \cap LetterWords(sent))
                          + (IF HasDigit(sent) THEN 1 ELSE 0)

\* C21: the score of a candidate is 2 for each discovery word that occurs in
\* it, 1 for each impact word that occurs in it and 1 if it holds a digit,
\* where a word occurs if it is found anywhere in the sentence, case ignored,
\* also inside a longer word; a word found several times counts once.
C21_ScoreCountsSubstrings ==
    Scored => \A k \in DOMAIN gse_scored :
                  LET sent == gse_scored[k][2]
                  IN  gse_scored[k][1] =
                          2 * Cardinality({w \in Range(DiscoveryChars) : OccursIn(sent, w)})
                          + Cardinality({w \in Range(ImpactChars) : OccursIn(sent, w)})
                          + (IF HasDigit(sent) THEN 1 ELSE 0)

\* a scored candidate in which the discovery word "found" occurs twice and
\* which scores 2, next to one that scores for "research" inside "researchers"
\* and for "new" inside "news"
C21_Witness ==
    /\ Scored
    /\ \E k \in DOMAIN gse_scored :
           /\ gse_scored[k][1] = 2
           /\ Cardinality({i \in 1..Len(gse_scored[k][2]) :
                               MatchAtCI(gse_scored[k][2], i, Chars("found"))}) = 2
    /\ \E k \in DOMAIN gse_scored :
           /\ OccursIn(gse_scored[k][2], Chars("news"))
           /\ Chars("new") \notin LetterWords(gse_scored[k][2])
           /\ gse_scored[k][1] = 7

\* the selection loop is over
Selected == gse_pc \in {"backfill", "fallback", "render", "done"}

\* the bullets the selection loop chose: it appends to bullet_points and to
\* used_words together, backfill and the final fallback to bullet_points only
SelectedBullets == SubSeq(gse_bullet_points, 1, Len(gse_used_words))

\* where a cleaned candidate stands in the segmented text (its first place)
Position(sent) == Min({p \in DOMAIN gse_sentences : gse_sentences[p] = sent})

\* a goes before b in descending score order, ties in text order
GoesBefore(a, b) ==
    \/ Score(a) > Score(b)
    \/ (Score(a) = Score(b) /\ Position(a) < Position(b))

\* the sentences of a list of (score, sent) entries
SentencesOf(entries) == [k \in DOMAIN entries |-> entries[k][2]]

\* C22: the scored list is visited in descending score order, entries of
\* equal score in their order in the text; so the bullets chosen by the
\* selection loop stand in the list, and in the returned markup, in
\* non-increasing score order and, for equal scores, in text order.
C22_DescendingStableOrder ==
    /\ Scored => /\ \A k, l \in DOMAIN gse_scored : k < l => gse_scored[k][1] >= gse_scored[l][1]
                 /\ \A v \in {gse_scored[k][1] : k \in DOMAIN gse_scored} :
                        SentencesOf(SelectSeq(gse_scored, LAMBDA entry : entry[1] = v))
                            = SelectSeq(gse_sentences,
                                        LAMBDA sent : Len(sent) <= MaxScoredLen /\ Score(sent) = v)
    /\ Selected => \A k, l \in DOMAIN SelectedBullets :
                       k < l => GoesBefore(SelectedBullets[k], SelectedBullets[l])
    /\ Returned => \A k \in DOMAIN SelectedBullets :
                       gse_html[k] = fix_spacing_and_grammar(SelectedBullets[k])

\* three bullets were selected and returned: the first stands later in the
\* text than the second but scores higher, the second and third score the same
C22_Witness ==
    /\ Returned
    /\ Len(SelectedBullets) = 3
    /\ Len(gse_html) = 3
    /\ Position(SelectedBullets[1]) > Position(SelectedBullets[2])
    /\ Score(SelectedBullets[1]) > Score(SelectedBullets[2])
    /\ Score(SelectedBullets[2]) = Score(SelectedBullets[3])
    /\ Position(SelectedBullets[2]) < Position(SelectedBullets[3])

\* the case-folded word set of a sentence: its maximal runs of characters
\* other than whitespace, lower-cased
FoldedWords(sent) ==
    LET inked == Range(sent) \ WhitespaceSet
    IN  {Lower(SubSeq(sent, i, RunEndIn(sent, i, inked))) :
            i \in {j \in 1..Len(sent) : sent[j] \in inked /\ (j = 1 \/ sent[j - 1] \notin inked)}}

\* the number of words a shares with b, doubled, against the size of a's word set
SharesAtMostHalf(a, b) ==
    2 * Cardinality(FoldedWords(a) \cap FoldedWords(b)) <= Cardinality(FoldedWords(a))

SharesHalf(a, b) ==
    2 * Cardinality(FoldedWords(a) \cap FoldedWords(b)) = Cardinality(FoldedWords(a))

\* C23: every bullet the selection loop added scores more than zero and
\* shares at most half of its own words with each bullet selected before it;
\* the loop never holds 3 bullets and goes on, and never selects more than 3.
C23_SelectedScoreAndOverlap ==
    /\ \A k \in DOMAIN SelectedBullets :
           /\ Score(SelectedBullets[k]) > 0
           /\ \A j \in 1..(k - 1) : SharesAtMostHalf(SelectedBullets[k], SelectedBullets[j])
    /\ Len(SelectedBullets) <= MaxBullets
    /\ gse_pc = "select" => Len(gse_bullet_points) < MaxBullets

\* the loop stopped at its third bullet, which shares exactly half of its
\* words with the second, and left unvisited an entry that scores and shares
\* at most half of its words with each of the three
C23_Witness ==
    /\ Selected
    /\ Len(SelectedBullets) = MaxBullets
    /\ SharesHalf(SelectedBullets[3], SelectedBullets[2])
    /\ gse_idx < Len(gse_scored)
    /\ gse_scored[gse_idx + 1][1] > 0
    /\ \A j \in 1..MaxBullets : SharesAtMostHalf(gse_scored[gse_idx + 1][2], SelectedBullets[j])

\* backfill has just run (the final fallback has not)
Backfilled == gse_pc = "fallback"

\* the cleaned candidates that are not among the selected bullets, each once,
\* in their order in the text
Unselected ==
    LET fresh == [p \in DOMAIN gse_sentences |->
                     IF /\ gse_sentences[p] \notin Range(SelectedBullets)
                        /\ \A q \in 1..(p - 1) : gse_sentences[q] # gse_sentences[p]
                     THEN gse_sentences[p] ELSE << >>]
    IN  SelectSeq(fresh, LAMBDA sent : sent # << >>)

\* C24: with fewer than 2 selected bullets, the cleaned candidates that are
\* not selected are appended in text order, whatever their score, length or
\* overlap, until there are 2 bullets or none is left; with 2 or more
\* selected bullets nothing is appended.
C24_BackfillToTwo ==
    Backfilled =>
        IF Len(SelectedBullets) >= MinBullets THEN gse_bullet_points = SelectedBullets
        ELSE gse_bullet_points = SelectedBullets \o Take(Unselected, MinBullets - Len(SelectedBullets))

\* one bullet was selected and backfill added a second one that scores 0 and
\* is not the first candidate of the text
C24_Witness ==
    /\ Backfilled
    /\ Len(SelectedBullets) = 1
    /\ Len(gse_bullet_points) = MinBullets
    /\ Score(gse_bullet_points[2]) = 0
    /\ gse_bullet_points[2] # gse_sentences[1]

C27_LongOnlyByBackfill ==
    /\ Scored => \A k \in DOMAIN gse_scored : Len(gse_scored[k][2]) <= 300
    /\ \A k \in DOMAIN SelectedBullets : Len(SelectedBullets[k]) <= 300
    /\ \A k \in DOMAIN gse_bullet_points :
           (gse_bullet_points[k] \in Range(gse_sentences) /\ Len(gse_bullet_points[k]) > 300)
               => /\ k > Len(SelectedBullets)
                  /\ gse_pc \in {"fallback", "render", "done"}
                  /\ Len(SelectedBullets) < MinBullets

\* a candidate of 301 characters that would score higher than the selected
\* bullet was returned as the second bullet, by backfill
C27_Witness ==
    /\ Returned
    /\ Len(SelectedBullets) = 1
    /\ Len(gse_html) = 2
    /\ Len(gse_bullet_points[2]) = 301
    /\ gse_bullet_points[2] \in Range(gse_sentences)
    /\ Score(gse_bullet_points[2]) > Score(SelectedBullets[1])

\* C30: at every point of the function the bullet list holds pairwise
\* different sentences, also when a sentence stands twice among the cleaned
\* candidates.
C30_BulletsPairwiseDistinct ==
    \A k, l \in DOMAIN gse_bullet_points : k # l => gse_bullet_points[k] # gse_bullet_points[l]

\* a sentence that stands twice among the cleaned candidates was selected,
\* passed over at its second place, and passed over again by the backfill
\* that added another sentence
C30_Witness ==
    /\ gse_pc = "fallback"
    /\ \E p, q \in DOMAIN gse_sentences :
           /\ p < q
           /\ gse_sentences[p] = gse_sentences[q]
           /\ SelectedBullets = <<gse_sentences[p]>>
    /\ Len(gse_bullet_points) = MinBullets
    /\ gse_idx > Len(gse_scored)

(***************************************************************************)
(* Properties of fetch_domain_articles (specification SpecFetch)           *)
(***************************************************************************)
\* the accepted articles whose source is s
AcceptedFrom(s) == SelectSeq(ud_articles, LAMBDA a : a.source = s)

\* the source names that occur in the accepted articles or in the counts
SourcesSeen == {ud_articles[k].source : k \in DOMAIN ud_articles} \cup DOMAIN ud_per_source

EnrichDone == ud_pc \in {"keep", "done"}

\* the records enrich_with_explanations emitted so far, and what update_digest
\* holds and keeps of them after it returned
ResultRecords ==
    Range(ud_enriched) \cup Range(ud_kept)
        \cup (IF EnrichDone THEN Range(ud_articles) ELSE {})

\* every record of the run, before and after enrichment
AllRecords == Range(ud_articles) \cup Range(ud_input) \cup Range(ud_enriched) \cup Range(ud_kept)

\* the headline, summary and domain field of every record of the run
RecordTopics == {<<record.title, record.summary, record.domain>> : record \in AllRecords}

\* the topic classify_domain returns for a headline and summary
DetectedDomain(topic) == classify_domain(topic[1], topic[2])

HasWildlifeTerm(topic) ==
    \E k \in DOMAIN wildlife_terms :
        Contains(Lower(topic[1] \o Space \o topic[2]), Chars(wildlife_terms[k]))

\* C6: after fetch_domain_articles followed by enrich_with_explanations, no
\* article record of the result has a URL for which is_paywalled_url is true.
C6_NoPaywalledUrlInResult ==
    \A url \in {record.url : record \in ResultRecords} : ~is_paywalled_url(url)

\* fetch_domain_articles handed over a record whose URL is on the deny-list
\* (a link without href on a listing from a deny-listed site), and
\* enrich_with_explanations has run
C6_Witness ==
    /\ ud_pc = "done"
    /\ \E i \in DOMAIN ud_input : is_paywalled_url(ud_input[i].url)

\* the page fetched for the i-th article was classified as paywalled
PageWasPaywalled(i) ==
    /\ ud_pages[i] # << >>
    /\ ud_pages[i][1].status = "ok"
    /\ check_for_paywall(ud_pages[i][1], ud_input[i].url)

\* C7: an article whose fetched page check_for_paywall classifies as paywalled
\* is excluded: enrich_with_explanations emits no record for it, whatever its
\* summary is.
C7_Original ==
    \A i \in DOMAIN ud_pages :
        PageWasPaywalled(i) =>
            \A j \in DOMAIN ud_enriched : ud_enriched[j].title # ud_input[i].title

C11_UnclassifiedDiscarded == \A topic \in RecordTopics : DetectedDomain(topic) # None

\* the links read so far of the listing page
LinksRead == {ud_elements[i] : i \in 1..Min({ud_elem_idx - 1, Len(ud_elements)})}

\* fetch_domain_articles has returned and had read a link whose headline and
\* summary classify_domain maps to None
C11_Witness ==
    /\ ud_pc = "done"
    /\ \E elem \in LinksRead : classify_domain(elem.headline, SummaryOf(elem)) = None

\* the five fields fetch_domain_articles gave the record
FetchedFields(record) ==
    [title |-> record.title, summary |-> record.summary, url |-> record.url,
     source |-> record.source, domain |-> record.domain]

EnrichedFieldNames ==
    {"title", "summary", "url", "source", "domain", "explanation", "image", "key_stat",
     "read_time"}

\* the k-th smallest member of a set of list positions
NthOf(positions, k) ==
    CHOOSE i \in positions : Cardinality({j \in positions : j <= i}) = k

\* C28: every record enrich_with_explanations emits is one of the records it
\* was given with its title, summary, url, source and domain unchanged and
\* the explanation, image, statistic and reading-time fields added, and the
\* emitted records stand in the order of the records they were made from
C28_EnrichKeepsFieldsAndOrder ==
    \E emitted \in SUBSET (1..Min({ud_enrich_idx - 1, Len(ud_input)})) :
        /\ Cardinality(emitted) = Len(ud_enriched)
        /\ \A k \in DOMAIN ud_enriched :
              /\ FetchedFields(ud_enriched[k]) = ud_input[NthOf(emitted, k)]
              /\ DOMAIN ud_enriched[k] = EnrichedFieldNames

\* C28: enrich_with_explanations has returned two records made from two
\* different input records
C28_Witness ==
    /\ EnrichDone
    /\ Len(ud_input) = 2
    /\ Len(ud_enriched) = 2
    /\ ud_input[1] # ud_input[2]

(***************************************************************************)
(* Properties of single functions (specification SpecCalls)                *)
(***************************************************************************)
Called(name) == fn_pc = "done" /\ fn_name = name

\* the host of a URL: what stands between "://" and the next "/" or "?"
HostOf(url) ==
    LET marks == {i \in 1..Len(url) : MatchAt(url, i, Chars("://"))}
        start == IF marks = {} THEN 1 ELSE Min(marks) + 3
        stops == {i \in start..Len(url) : url[i] \in {"/", "?"}}
    IN  SubSeq(url, start, Min(stops \cup {Len(url) + 1}) - 1)

HostOnDenyList(url) ==
    \E k \in DOMAIN PaywalledDomainChars : Contains(Lower(HostOf(url)), PaywalledDomainChars[k])

\* C12: is_paywalled_url(url) is true if and only if the host of the URL
\* contains, case-insensitively, an entry of PAYWALLED_DOMAINS; the path and
\* the query do not matter.
C12_Original == Called("is_paywalled_url") => (fn_result = HostOnDenyList(fn_args[1]))

\* what a page shows: an indicator phrase in its lower-cased text, an element
\* styled as a paywall (line 273), an element of a dedicated paywall class
\* (lines 278-285)
ClassHas(page, word) == \E c \in page.classes : Contains(c, Chars(word))

HasIndicatorPhrase(page) ==
    \E k \in DOMAIN PAYWALL_INDICATORS : Contains(Lower(page.text), Chars(PAYWALL_INDICATORS[k]))

HasStyledElement(page) ==
    \/ ClassHas(page, "paywall")
    \/ ClassHas(page, "subscribe")
    \/ ClassHas(page, "premium")
    \/ \E i \in page.ids : Contains(i, Chars("paywall"))

HasDedicatedElement(page) ==
    \/ ClassHas(page, "paywall")
    \/ ClassHas(page, "subscriber-only")
    \/ ClassHas(page, "premium-content")
    \/ ClassHas(page, "locked-content")
    \/ \E c \in page.classes : Chars("subscription-required") \in Range(SplitWords(c))
    \/ page.data_paywall

FreeUrlPageCall == Called("check_for_paywall") /\ ~HostOnDenyList(fn_args[2])

\* C13: for a URL that is not on the deny-list, check_for_paywall returns true
\* only when the page text contains an indicator phrase AND an element matches
\* a paywall-styling selector; either condition alone yields false.
C13_Original ==
    FreeUrlPageCall =>
        (fn_result = (HasIndicatorPhrase(fn_args[1]) /\ HasStyledElement(fn_args[1])))

\* C13 as the code has it: for a URL that is not on the deny-list the result
\* is true exactly when an indicator phrase and a styled element occur
\* together, or an element of a dedicated paywall class occurs, with or
\* without a phrase.  An indicator phrase alone yields false.
C13_MarkersOrDedicated ==
    FreeUrlPageCall =>
        (fn_result = (\/ HasIndicatorPhrase(fn_args[1]) /\ HasStyledElement(fn_args[1])
                      \/ HasDedicatedElement(fn_args[1])))

\* a page without any indicator phrase was reported as paywalled, because of
\* the class or id of one of its elements
C13_Witness ==
    /\ FreeUrlPageCall
    /\ fn_result = TRUE
    /\ ~HasIndicatorPhrase(fn_args[1])
    /\ ~fn_args[1].data_paywall

\* C14: normalize_characters is idempotent: normalizing the text it returned
\* returns that text again, also for texts that mix mojibake lead bytes, the
\* euro sign, smart quotes and the replacement entities.
C14_Idempotent ==
    Called("normalize_characters") => (normalize_characters(fn_result) = fn_result)

\* a text with a mojibake lead byte and a euro sign was changed by the call
C14_Witness ==
    /\ Called("normalize_characters")
    /\ fn_result # fn_args[1]
    /\ {"U+00E2", "U+20AC"} \subseteq Range(fn_args[1])
    /\ Contains(fn_result, Apostrophe)

\* C15: on empty text every core function returns its fallback value:
\* normalize_characters("") and simplify_text("") return "", classify_domain("", "")
\* returns None, generate_simple_explanation with empty summary and full text
\* returns the one placeholder bullet, extract_key_statistic("", title) returns
\* None and calculate_reading_time("") returns 1.
C15_EmptyInputFallbacks ==
    /\ Called("normalize_characters") /\ fn_args[1] = << >> => fn_result = << >>
    /\ Called("simplify_text") /\ fn_args[1] = << >> => fn_result = << >>
    /\ Called("classify_domain") /\ fn_args = << << >>, << >> >> => fn_result = None
    /\ Called("generate_simple_explanation") /\ fn_args[2] = << >> /\ fn_args[3] = << >>
          => fn_result = <<Placeholder>>
    /\ Called("extract_key_statistic") /\ fn_args[1] = << >> => fn_result = << >>
    /\ Called("calculate_reading_time") /\ fn_args[1] = << >> => fn_result = 1

\* generate_simple_explanation returned for a titled article without summary
\* and full text
C15_Witness ==
    /\ Called("generate_simple_explanation")
    /\ fn_args[1] # << >>
    /\ fn_args[2] = << >>
    /\ fn_args[3] = << >>
    /\ Len(fn_result) = 1

\* the number of words of a text, counted where they end
WordEnds(t) ==
    Cardinality({i \in 1..Len(t) : ~IsSpace(t[i]) /\ (i = Len(t) \/ IsSpace(t[i + 1]))})

\* the number of minutes nearest to n / WordsPerMinute, the even one of the
\* two if n lies halfway between them
IsNearestMinutes(r, n) ==
    /\ 2 * r * WordsPerMinute - 2 * n <= WordsPerMinute
    /\ 2 * n - 2 * r * WordsPerMinute <= WordsPerMinute
    /\ (2 * n - 2 * r * WordsPerMinute \in {WordsPerMinute, -WordsPerMinute}) => r % 2 = 0

\* C16: calculate_reading_time(content) is an integer of at least 1 that
\* equals max(1, round(wordCount / 200)), round() taking a half to the even
\* neighbour: empty content gives 1 and a text of 400 words gives 2.
C16_ReadingTime ==
    Called("calculate_reading_time") =>
        LET n == WordEnds(fn_args[1])
        IN  /\ fn_result \in Nat
            /\ fn_result >= 1
            /\ \/ fn_result = 1 /\ \E r \in {0, 1} : IsNearestMinutes(r, n)
               \/ fn_result > 1 /\ IsNearestMinutes(fn_result, n)
            /\ n = 0 => fn_result = 1
            /\ n = 2 * WordsPerMinute => fn_result = 2

\* a text of two and a half times WordsPerMinute words was timed
C16_Witness ==
    /\ Called("calculate_reading_time")
    /\ 2 * WordEnds(fn_args[1]) = 5 * WordsPerMinute
    /\ fn_result = 2

\* the text extract_key_statistic searches for the call made
StatText == fn_args[1] \o Space \o fn_args[2]

StatCall == Called("extract_key_statistic") /\ fn_args[1] # << >>

\* line 689-691: a match as it is returned
Tidy(match) == CollapseWhitespace(Strip(match))

\* the matches of a pattern from position pos on, one after the other without
\* overlap (re.finditer)
RECURSIVE Occurrences(_, _, _)
Occurrences(pattern, text, pos) ==
    LET starts == {i \in pos..Len(text) : Ends(pattern, text, i) # << >>}
    IN  IF starts = {} THEN << >>
        ELSE LET i == Min(starts)
                 e == Ends(pattern, text, i)[1]
             IN  <<SubSeq(text, i, e - 1)>> \o Occurrences(pattern, text, IF e > i THEN e ELSE i + 1)

\* the matches of the n-th pattern that are short enough, wherever they occur
ShortOccurrences(n) ==
    {Tidy(match) : match \in {o \in Range(Occurrences(stat_patterns[n], StatText, 1)) :
                                  Len(Tidy(o)) < MaxStatLen}}

\* the patterns whose leftmost match is short enough
ShortLeftmost ==
    {n \in DOMAIN stat_patterns :
        /\ Search(stat_patterns[n], StatText) # << >>
        /\ Len(Tidy(Search(stat_patterns[n], StatText)[1])) < MaxStatLen}

\* C17: the patterns are tried in the fixed priority order and the first match
\* under 60 characters is returned: a short enough match of an earlier pattern
\* is returned in preference to any later pattern wherever the matches occur in
\* the text, and a match of 60 or more characters is never returned.
C17_Original ==
    StatCall =>
        LET having == {n \in DOMAIN stat_patterns : ShortOccurrences(n) # {}}
        IN  having # {} => fn_result # << >> /\ fn_result[1] \in ShortOccurrences(Min(having))

\* C17 as the code has it: of every pattern only the leftmost match counts.
\* The result is the leftmost match of the first pattern, in priority order,
\* whose leftmost match has fewer than 60 characters, wherever in the text the
\* leftmost matches of later patterns lie; a pattern whose leftmost match has
\* 60 or more characters is passed over, later shorter matches of it included.
\* When no pattern is left, the result is None or a sentence of the text of
\* more than 20 and fewer than 80 characters that holds a digit.
C17_LeftmostOfFirstPattern ==
    StatCall =>
        IF ShortLeftmost # {}
        THEN fn_result = <<Tidy(Search(stat_patterns[Min(ShortLeftmost)], StatText)[1])>>
        ELSE \/ fn_result = << >>
             \/ /\ Len(fn_result[1]) > MinFallbackStatLen
                /\ Len(fn_result[1]) < MaxFallbackStatLen
                /\ Range(fn_result[1]) \cap DigitSet # {}
                /\ Range(fn_result[1]) \cap SentenceEndSet = {}
                /\ Contains(StatText, fn_result[1])

\* the leftmost percentage is too long and a later one is short enough, and a
\* counted entity was returned
C17_Witness ==
    /\ StatCall
    /\ 1 \notin ShortLeftmost
    /\ ShortOccurrences(1) # {}
    /\ fn_result = <<Tidy(Search(stat_patterns[7], StatText)[1])>>

\* the statistic of a title alone: the leftmost match of the first pattern
\* whose leftmost match in the title has fewer than 60 characters
RECURSIVE TitleStatistic(_, _)
TitleStatistic(title, n) ==
    IF n > Len(stat_patterns) THEN << >>
    ELSE IF Concise(Search(stat_patterns[n], title)) # << >>
         THEN Concise(Search(stat_patterns[n], title))
         ELSE TitleStatistic(title, n + 1)

HasNoDigit(text) == Range(text) \cap DigitSet = {}

\* C18: the concatenation of content and title is searched: a statistic that
\* appears only in the title is found and returned, for every content, the
\* empty content included.
C18_Original ==
    /\ Called("extract_key_statistic")
    /\ HasNoDigit(fn_args[1])
    /\ TitleStatistic(fn_args[2], 1) # << >>
    => fn_result # << >> /\ Contains(fn_result[1], TitleStatistic(fn_args[2], 1)[1])

\* C18 as the code has it: with an empty content the result is None whatever
\* the title holds.  With a content that is not empty and holds no digit, the
\* statistic of the title is found and returned, preceded by an "over",
\* "about" or "more than" if the content ends with one and the title begins
\* with the counted entity.
C18_TitleStatisticFound ==
    /\ Called("extract_key_statistic") /\ fn_args[1] = << >> => fn_result = << >>
    /\ StatCall /\ HasNoDigit(fn_args[1]) /\ TitleStatistic(fn_args[2], 1) # << >>
          => /\ fn_result # << >>
             /\ Contains(fn_result[1], TitleStatistic(fn_args[2], 1)[1])
             /\ Contains(fn_args[1] \o Space \o TitleStatistic(fn_args[2], 1)[1], fn_result[1])

\* a statistic that only the title holds was returned for a content without
\* any number
C18_Witness ==
    /\ StatCall
    /\ HasNoDigit(fn_args[1])
    /\ TitleStatistic(fn_args[2], 1) # << >>
    /\ fn_result = TitleStatistic(fn_args[2], 1)

\* the words of 4 or more characters of a text, lower-cased: each stretch of
\* word characters (letters, digits, underscore) that has a non-word character
\* or the end of the text on either side and is at least 4 long
FourPlusWords(text) ==
    LET n == Len(text)
        stretches == {span \in (1..n) \X (1..n) :
                        /\ span[2] - span[1] >= 3
                        /\ \A k \in span[1]..span[2] : IsWordChar(text[k])
                        /\ (span[1] = 1 \/ ~IsWordChar(text[span[1] - 1]))
                        /\ (span[2] = n \/ ~IsWordChar(text[span[2] + 1]))}
    IN  {Lower(SubSeq(text, span[1], span[2])) : span \in stretches}

SharedWords == Cardinality(FourPlusWords(fn_args[1]) \cap FourPlusWords(fn_args[2]))

SmallerSet ==
    Min({Cardinality(FourPlusWords(fn_args[1])), Cardinality(FourPlusWords(fn_args[2]))})

\* C26: is_similar_to_title(sentence, title) is true exactly when both sets
\* of 4+-character words are not empty and the shared words divided by the
\* size of the smaller set exceed 0.6 (5 * shared > 3 * smaller); a ratio of
\* exactly 0.6 and an empty set on either side give false.
C26_SimilarAboveSixTenths ==
    Called("is_similar_to_title") =>
        fn_result = (/\ FourPlusWords(fn_args[1]) # {}
                     /\ FourPlusWords(fn_args[2]) # {}
                     /\ 5 * SharedWords > 3 * SmallerSet)

\* the sentence shares 3 of the 5 long words of the title, in other case, and
\* has 7 of its own: the ratio is exactly 0.6 and the result false
C26_Witness ==
    /\ Called("is_similar_to_title")
    /\ Cardinality(FourPlusWords(fn_args[2])) = 5
    /\ Cardinality(FourPlusWords(fn_args[1])) = 7
    /\ SharedWords = 3
    /\ fn_args[1] # Lower(fn_args[1])
    /\ fn_result = FALSE

(***************************************************************************)
(* Properties of classify_domain (specification SpecClassify)              *)
(***************************************************************************)
Classified == cl_pc = "done"

HitCount(k) == KeywordScore(DomainOrder[k], ClassifyText(cl_title, cl_summary))

\* C9: when some keyword occurs, classify_domain returns one topic, the one
\* with the highest keyword-hit count over the lower-cased title and summary;
\* of several topics with that count it returns the first in the declared
\* order Astronomy, Wildlife, Biology, Climate.
C9_FirstHighestCount ==
    (Classified /\ \E k \in DOMAIN DomainOrder : HitCount(k) > 0) =>
        \E k \in DOMAIN DomainOrder :
            /\ cl_result = DomainOrder[k]
            /\ \A j \in DOMAIN DomainOrder : HitCount(j) <= HitCount(k)
            /\ \A j \in 1..(k - 1) : HitCount(j) < HitCount(k)

\* two topics share the highest count and the earlier one is returned
C9_Witness ==
    /\ Classified
    /\ \E k, m \in DOMAIN DomainOrder :
          /\ k < m
          /\ HitCount(k) > 0
          /\ HitCount(k) = HitCount(m)
          /\ \A j \in DOMAIN DomainOrder : HitCount(j) <= HitCount(k)
          /\ cl_result = DomainOrder[k]

\* C10: classify_domain returns None exactly when no keyword of any topic
\* occurs in the lower-cased title and summary (so for an empty title and
\* summary), and a topic it returns has a count above zero.
C10_NoneIffNoKeyword ==
    Classified =>
        /\ (cl_result = None) <=> (\A k \in DOMAIN DomainOrder : HitCount(k) = 0)
        /\ \A k \in DOMAIN DomainOrder : cl_result = DomainOrder[k] => HitCount(k) > 0
        /\ (cl_title = << >> /\ cl_summary = << >>) => cl_result = None

\* classify_domain("", "") returned None
C10_Witness ==
    /\ Classified
    /\ cl_title = << >>
    /\ cl_summary = << >>
    /\ cl_result = None

====
